---------------------------- MODULE Spec2Model ----------------------------
(***************************************************************************)
(* LittleExport: the streaming archive engine of little-export.core.js.    *)
(*                                                                         *)
(* Bytes are naturals 0..255, byte buffers (Uint8Array) are sequences of   *)
(* bytes, and a JavaScript string is the sequence of its character codes   *)
(* (all strings of the model are ASCII, so ENC.encode / DEC.decode are     *)
(* the identity on these sequences and .length is the byte length).        *)
(* Offsets of the source are 0-based; sequences are 1-based, so the byte   *)
(* at source offset k is element k+1.                                      *)
(***************************************************************************)
EXTENDS Integers, Sequences, FiniteSets, TLC

VARIABLES
    \* ---- createTarHeader applied to one input, and the reader's decoding
    hName,      \* filename handed to createTarHeader
    hSize,      \* size handed to createTarHeader
    hIsDir,     \* isDir handed to createTarHeader
    hMtime,     \* Math.floor(Date.now() / 1000) at the call
    hBuf,       \* the 512-byte header returned (<<>> before the call)
    hDecName,   \* name as importData decodes it from hBuf
    hDecSize,   \* size as importData decodes it from hBuf
    hPc,        \* "off", or "input" -> "built" -> "decoded"
    \* ---- TarWriter over a sink that keeps the container bytes
    wEntries,   \* the entries exportData is going to write, in order
    wIdx,       \* number of entries completely written
    wPos,       \* TarWriter.pos
    wSink,      \* the bytes handed to this.writer.write, concatenated
    wPc,        \* "off", "idle", "piping" (inside writeStream), "closed"
    wOff,       \* bytes of the piped readableStream already delivered
    \* ---- importData reading the container
    opts,       \* the config of importData (opfs, onCustomItem, idb)
    iCut,       \* length of the byte source (the sink's bytes up to iCut)
    iOff,       \* bytes of the source already returned by reader.read()
    iBuf,       \* buffer
    iDone,      \* done
    iPc,        \* "off","header","mem","stream","skip","pad","end"
    iName,      \* name of the entry being handled
    iSize,      \* size of the entry being handled
    iRemaining, \* remaining, of streamToFile or skipBytes
    iFileW,     \* bytes written to the writable of streamToFile
    iDispatched,\* what reached the storage backends, in order
    iLog,       \* the terminal logger call: "none", "complete", or the error
    \* ---- EncryptionTransformer inside a TransformStream
    ePw,        \* password
    eSalt,      \* this.salt
    ePlain,     \* the plaintext the writable side is going to receive
    eTape,      \* the values crypto.getRandomValues is going to return
    eDrawn,     \* number of values drawn from eTape
    eFed,       \* plaintext bytes already passed to transform()
    eBuf,       \* this.buffer
    eOut,       \* the chunks enqueued on the readable side, in order
    ePc,        \* "off", "new", "started", "flushed"
    \* ---- the encrypted file handed to DecryptionSource
    cFile,      \* its bytes
    cMode,      \* how it was derived from the writer's output
    cEnd,       \* offset at which the source reported its end, -1 before
    \* ---- DecryptionSource.readable()
    dPw,        \* password
    dOff,       \* bytes of the file already returned by reader.read()
    dBuf,       \* buffer
    dDone,      \* done
    dPc,        \* "off","sig","head","body","closed","errored"
    dKey,       \* key
    dIv,        \* iv of the chunk being read
    dLen,       \* lenVal of the chunk being read
    dOut,       \* the chunks enqueued on the controller, in order
    dErr,       \* the error given to controller.error, "" when none
    \* ---- importData's DecompressionStream("gzip") behind DecryptionSource
    gPc,        \* "off", "open", "closed", "errored"
    gIn,        \* the bytes written to its writable side so far
    gTaken,     \* number of chunks of dOut the pipe has passed on
    gOut,       \* the chunks queued on its readable side
    gErr,       \* the error its readable side is errored with
    \* ---- exportData: the pipeline and the function's own progress
    xPw,        \* opts.password is set
    xBlob,      \* outputStream is the in-memory fallback of line 319
    xFail,      \* the write before which a collaborator throws, 0: none
    xPc,        \* "off","new","loop","writeWait","closeWait","done"
    xNext,      \* the next write of the codec, counted from 1
    xAck,       \* the promise exportData is awaiting has resolved
    xLog,       \* the terminal logger call: "none", "complete", "error"
    xClicked,   \* a.click() was called
    downloadUrl,\* downloadUrl is set
    xStages,    \* the streams of the chain, from gzip to the sink
    \* prepForCBOR / restoreFromCBOR
    vItem,      \* the value given to prepForCBOR
    vPrep,      \* prepForCBOR(vItem)
    vBack,      \* restoreFromCBOR(vPrep)
    vAgain,     \* prepForCBOR(vBack)
    vPc,
    \* one call of exportData or importData
    rCall,      \* "export" or "import"
    rEnv,       \* what the page holds and which of its promises reject
    rPc,
    rStep,      \* the statement of the try block exportData is at
    rOps,       \* the TarWriter operations started and not yet completed
    rOut,       \* the parts written to gzip.writable, in order
    rPaths,     \* the paths of the entries started, in order
    rLog,       \* the notifications given to logger, in order
    \* ---- isAllowed and the OPFS walk of exportData
    fOpts,      \* opts: [include, exclude], each a list of terms per category
    fCat,       \* category
    fPath,      \* path
    fAllowed,   \* what isAllowed returned
    fTree,      \* the entries of the OPFS root directory
    fStack,     \* the calls of walk in progress, innermost last
    fWritten,   \* the paths given to tar.writeStream, in order
    fPc,
    \* ---- the size field of createTarHeader, digit by digit
    oDigits,    \* size.toString(8)
    oField,     \* the twelve octets at offset 124
    oDec,       \* the octal digits the reader takes from the field
    oPc,
    \* ---- the batch loop of one object store
    bStore,     \* the records of the store, in key order
    bLastKey,   \* lastKey: [null, k]
    bHasMore,   \* hasMore
    bChunkId,   \* chunkId
    bBatch,     \* the batch just read
    bOut,       \* the entries written: [id, items]
    bPc,
    \* ---- unsafeObjectToReadableJS
    sGraph,     \* the objects reachable from obj; obj is sGraph[1]
    sStack,     \* stack of the reference-counting loop
    counts,     \* counts
    idMap,      \* idMap
    declarations,
    populationQueue,
    sDone,      \* the index i of the final loop over populationQueue
    updates,
    refCounter,
    rootResult,
    sPc

hdrVars == <<hName, hSize, hIsDir, hMtime, hBuf, hDecName, hDecSize, hPc>>
wVars   == <<wEntries, wIdx, wPos, wSink, wPc, wOff>>
iVars   == <<opts, iCut, iOff, iBuf, iDone, iPc, iName, iSize, iRemaining,
             iFileW, iDispatched, iLog>>

eVars   == <<ePw, eSalt, ePlain, eTape, eDrawn, eFed, eBuf, eOut, ePc>>
cVars   == <<cFile, cMode, cEnd>>
dVars   == <<dPw, dOff, dBuf, dDone, dPc, dKey, dIv, dLen, dOut, dErr>>
gVars   == <<gPc, gIn, gTaken, gOut, gErr>>
xVars   == <<xPw, xBlob, xFail, xPc, xNext, xAck, xLog, xClicked, downloadUrl,
             xStages>>

vVars   == <<vItem, vPrep, vBack, vAgain, vPc>>
rVars   == <<rCall, rEnv, rPc, rStep, rOps, rOut, rPaths, rLog>>

fVars   == <<fOpts, fCat, fPath, fAllowed, fTree, fStack, fWritten, fPc>>
oVars   == <<oDigits, oField, oDec, oPc>>
bVars   == <<bStore, bLastKey, bHasMore, bChunkId, bBatch, bOut, bPc>>
sVars   == <<sGraph, sStack, counts, idMap, declarations, populationQueue, sDone,
             updates, refCounter, rootResult, sPc>>
uVars   == <<fVars, oVars, bVars, sVars>>

vars == <<hdrVars, wVars, iVars, eVars, cVars, dVars, gVars, xVars, vVars,
          rVars, uVars>>

---------------------------------------------------------------------------
(* Generic helpers that stand for JavaScript built-ins.                    *)

Min(a, b) == IF a < b THEN a ELSE b
Max(a, b) == IF a > b THEN a ELSE b

\* Uint8Array.prototype.slice(from, to) / String.prototype.slice, 0-based,
\* end exclusive, both clamped to the length.
Slice(s, from, to) ==
    LET f == Min(Max(from, 0), Len(s))
        t == Min(Max(to, 0), Len(s))
    IN  IF t <= f THEN <<>> ELSE SubSeq(s, f + 1, t)

SliceFrom(s, from) == Slice(s, from, Len(s))

\* new Uint8Array(n): n zero bytes
Zeros(n) == SubSeq([i \in 1..n |-> 0], 1, n)

\* String.prototype.repeat for a single character code
Repeat(c, n) == [i \in 1..n |-> c]

\* s is the beginning of t
IsPrefix(s, t) == Len(s) <= Len(t) /\ s = SubSeq(t, 1, Len(s))

\* character codes used by the header code
CHAR_SLASH == 47
CHAR_ZERO  == 48
CHAR_FIVE  == 53
CHAR_SPACE == 32

\* Number.prototype.toString(8) for a non-negative integer
RECURSIVE ToOctal(_)
ToOctal(n) ==
    IF n < 8 THEN <<CHAR_ZERO + n>>
    ELSE Append(ToOctal(n \div 8), CHAR_ZERO + (n % 8))

\* String.prototype.padStart(len, "0")
PadStart(s, len) ==
    IF Len(s) >= len THEN s ELSE Repeat(CHAR_ZERO, len - Len(s)) \o s

\* String.prototype.lastIndexOf("/", fromIndex): the largest 0-based index
\* i <= fromIndex with s[i] = "/", or -1
LastIndexOfSlash(s, fromIndex) ==
    LET cand == {i \in 0..Min(fromIndex, Len(s) - 1) : s[i + 1] = CHAR_SLASH}
    IN  IF cand = {} THEN -1 ELSE CHOOSE i \in cand : \A j \in cand : j <= i

---------------------------------------------------------------------------
(* createTarHeader                                                         *)

BLOCK      == 512
NAME_LEN   == 100
PREFIX_LEN == 155
PREFIX_OFF == 345
SIZE_OFF   == 124
SIZE_LEN   == 12
LAST_SLASH_FROM == 154

\* const writeStr = (str, offset, len): copies min(len, str.length) bytes
\* of str to buffer[offset ...]
WriteStr(buffer, str, offset, len) ==
    LET n == Min(len, Len(str))
    IN  SubSeq(buffer, 1, offset) \o SubSeq(str, 1, n)
            \o SubSeq(buffer, offset + n + 1, Len(buffer))

\* writeOctal for a number given as digits, the string num.toString(8)
WriteOctalDigits(buffer, digits, offset, len) ==
    WriteStr(buffer, PadStart(digits, len - 1), offset, len - 1)

\* const writeOctal = (num, offset, len)
WriteOctal(buffer, num, offset, len) ==
    WriteOctalDigits(buffer, ToOctal(num), offset, len)

\* the split of a filename into [prefix, name] (lines 97-106)
SplitName(filename) ==
    IF Len(filename) > NAME_LEN
    THEN LET found == LastIndexOfSlash(filename, LAST_SLASH_FROM)
             splitIndex ==
                 IF found = -1 \/ found < Len(filename) - NAME_LEN
                 THEN Max(0, Len(filename) - NAME_LEN)
                 ELSE found
             prefix == Slice(filename, 0, splitIndex)
         IN  [prefix |-> prefix,
              name   |-> SliceFrom(filename,
                                   splitIndex + (IF prefix # <<>> THEN 1 ELSE 0))]
    ELSE [prefix |-> <<>>, name |-> filename]

\* a sum that leaves out the first byte of the range
RECURSIVE SumBytes_DropsFirst(_, _, _)
SumBytes_DropsFirst(buffer, lo, hi) ==
    IF lo >= hi THEN 0
    ELSE LET mid == (lo + hi) \div 2
         IN  SumBytes_DropsFirst(buffer, lo, mid) + buffer[mid + 1]
                 + SumBytes_DropsFirst(buffer, mid + 1, hi)

\* sum of the bytes buffer[lo..hi] (1-based, inclusive), as the loop of
\* line 129 computes it
RECURSIVE SumBytes(_, _, _)
SumBytes(buffer, lo, hi) ==
    IF lo > hi THEN 0
    ELSE IF lo = hi THEN buffer[lo]
    ELSE LET mid == (lo + hi) \div 2
         IN  SumBytes(buffer, lo, mid) + SumBytes(buffer, mid + 1, hi)

\* createTarHeader(filename, size, isDir); now is Math.floor(Date.now()/1000)
CreateTarHeader(filename, size, isDir, now) ==
    LET sp == SplitName(filename)
        b0 == Zeros(BLOCK)
        b1 == WriteStr(b0, sp.name, 0, NAME_LEN)
        b2 == WriteOctal(b1, 436, 100, 8)                \* 0o664, mode
        b3 == WriteOctal(b2, 0, 108, 8)                  \* uid
        b4 == WriteOctal(b3, 0, 116, 8)                  \* gid
        b5 == WriteOctal(b4, size, SIZE_OFF, SIZE_LEN)   \* size
        b6 == WriteOctal(b5, now, 136, 12)               \* mtime
        b7 == WriteStr(b6, Repeat(CHAR_SPACE, 8), 148, 8)
        b8 == [b7 EXCEPT ![157] = IF isDir THEN CHAR_FIVE ELSE CHAR_ZERO]
        b9 == WriteStr(b8, <<117, 115, 116, 97, 114>>, 257, 6)   \* "ustar"
        b10 == WriteStr(b9, <<CHAR_ZERO, CHAR_ZERO>>, 263, 2)    \* "00"
        b11 == IF sp.prefix # <<>>
               THEN WriteStr(b10, sp.prefix, PREFIX_OFF, PREFIX_LEN)
               ELSE b10
    IN  WriteOctal(b11, SumBytes(b11, 1, BLOCK), 148, 7)

---------------------------------------------------------------------------
(* The header decoding of importData (lines 720-727)                       *)

\* header.every((b) => b === 0)
AllZero(header) == \A i \in 1..Len(header) : header[i] = 0

\* "." of a JavaScript regular expression matches every character except
\* the line terminators (of the ASCII range: LF and CR)
IsLineTerminator(c) == c \in {10, 13}

\* str.replace(/\0.*/g, ""): every NUL and what follows it up to the next
\* line terminator is removed. The character at i stays when it is no NUL
\* and no NUL before it reaches it without crossing a line terminator.
RECURSIVE KeepRange(_, _, _, _)
KeepRange(s, kept, lo, hi) ==
    IF lo > hi THEN <<>>
    ELSE IF lo = hi THEN (IF lo \in kept THEN <<s[lo]>> ELSE <<>>)
    ELSE LET mid == (lo + hi) \div 2
         IN  KeepRange(s, kept, lo, mid) \o KeepRange(s, kept, mid + 1, hi)

StripNul(s) ==
    LET kept == {i \in 1..Len(s) :
                    /\ s[i] # 0
                    /\ ~\E j \in 1..(i - 1) :
                          /\ s[j] = 0
                          /\ \A k \in (j + 1)..i : ~IsLineTerminator(s[k])}
    IN  KeepRange(s, kept, 1, Len(s))

\* String.prototype.trim / the leading white space parseInt skips (ASCII)
IsWhite(c) == c \in {9, 10, 11, 12, 13, 32}

RECURSIVE SkipWhite(_)
SkipWhite(s) ==
    IF s # <<>> /\ IsWhite(Head(s)) THEN SkipWhite(Tail(s)) ELSE s

\* the value of the longest prefix of octal digits of s, read after acc
RECURSIVE OctalDigits(_, _, _)
OctalDigits(s, acc, seen) ==
    IF s # <<>> /\ Head(s) >= CHAR_ZERO /\ Head(s) <= CHAR_ZERO + 7
    THEN OctalDigits(Tail(s), acc * 8 + (Head(s) - CHAR_ZERO), TRUE)
    ELSE [nan |-> ~seen, val |-> acc]

\* parseInt(str.trim(), 8): white space, an optional sign, octal digits;
\* NaN when no digit follows
ParseIntOctal(str) ==
    LET t == SkipWhite(str)
        neg == t # <<>> /\ Head(t) = 45
        signed == t # <<>> /\ Head(t) \in {43, 45}
        r == OctalDigits(IF signed THEN Tail(t) ELSE t, 0, FALSE)
    IN  [nan |-> r.nan, val |-> IF neg THEN 0 - r.val ELSE r.val]

\* lines 722-724: the entry name the reader derives from a header
DecodeName(header) ==
    LET name   == StripNul(Slice(header, 0, NAME_LEN))
        prefix == StripNul(Slice(header, PREFIX_OFF, 500))
    IN  IF prefix # <<>> THEN prefix \o <<CHAR_SLASH>> \o name ELSE name

\* line 725: the size the reader derives from a header
DecodeSize(header) == ParseIntOctal(Slice(header, SIZE_OFF, SIZE_OFF + SIZE_LEN))

\* line 727
Padding(size) == (BLOCK - (size % BLOCK)) % BLOCK

---------------------------------------------------------------------------
(* Strings of the program, as character codes                              *)

STR_DATA    == <<100, 97, 116, 97, 47>>                           \* "data/"
STR_OPFS    == <<111, 112, 102, 115, 47>>                         \* "opfs/"
STR_CUSTOM  == STR_DATA \o <<99, 117, 115, 116, 111, 109, 47>>    \* "data/custom/"
STR_IDB     == STR_DATA \o <<105, 100, 98, 47>>                   \* "data/idb/"
STR_LS      == STR_DATA \o <<108, 115, 46, 106, 115, 111, 110>>   \* "data/ls.json"
STR_SS      == STR_DATA \o <<115, 115, 46, 106, 115, 111, 110>>   \* "data/ss.json"
STR_COOKIES == STR_DATA \o <<99, 111, 111, 107, 105, 101, 115, 46, 106, 115, 111, 110>>

\* String.prototype.startsWith
StartsWith(s, t) == Len(s) >= Len(t) /\ SubSeq(s, 1, Len(t)) = t

---------------------------------------------------------------------------
(* Bounds and inputs                                                       *)

\* the entries of one archive are at most this many
MaxEntries == 2
\* the payload size "larger than one source chunk" (two blocks and a byte)
BigSize == 1025
\* the clock reading (seconds) of the export
NowSecs == 1700000000
\* at most this many "/" in a filename handed to createTarHeader alone
MaxSlashes == 2
\* a truncated source ends at a multiple of this many bytes
CutStride == 1224

\* payload sizes of the entries (spec: 0, 1, 511, 512, 513 and a large one)
PayloadSizes == {0, 1, BLOCK - 1, BLOCK, BLOCK + 1, BigSize}

\* sizes of the chunks a ReadableStream hands out (reader.read(), pipeTo)
ChunkSizes == {300, BLOCK, 2 * BLOCK + 200}

\* "data/custom/a": read into memory and handed to opts.onCustomItem
PATH_CUSTOM == STR_CUSTOM \o <<97>>
\* "opfs/f": streamed to a file of the private file tree
PATH_FILE   == STR_OPFS \o <<102>>

\* "g/h": no known prefix, streamed to a file of the private file tree
PATH_PLAIN  == <<103, 47, 104>>

EntryPaths == {PATH_CUSTOM, PATH_FILE, PATH_PLAIN}

\* the bytes of an entry's payload, fixed by its path and size
Payload(path, size) == [i \in 1..size |-> (i * 3 + Len(path)) % 256]

\* the entries exportData writes: custom string items go through
\* writeEntry (line 360), files of the private file tree through
\* writeStream (line 575)
EntryOf(path, size) ==
    [path |-> path, size |-> size, viaStream |-> ~StartsWith(path, STR_DATA)]

\* the payload sizes in a fixed order, to assign sizes to the entries of
\* a sequence: entry k of a sequence started at s has size SizeAt(s + k)
SizeList == <<0, 1, BLOCK - 1, BLOCK, BLOCK + 1, BigSize>>
SizeAt(k) == SizeList[(k % Len(SizeList)) + 1]

\* sequences of n distinct paths
RECURSIVE PathSeqs(_)
PathSeqs(n) ==
    IF n = 0 THEN {<<>>}
    ELSE { Append(ps, p) : ps \in PathSeqs(n - 1), p \in EntryPaths }
         \ { Append(ps, ps[i]) : ps \in PathSeqs(n - 1), i \in 1..(n - 1) }

\* the archives of the model: up to MaxEntries entries with distinct
\* paths; every payload size occurs at every position
EntrySeqs ==
    UNION { { [k \in 1..n |-> EntryOf(ps[k], SizeAt(s + k))] :
                ps \in PathSeqs(n), s \in 0..(Len(SizeList) - 1) } :
            n \in 0..MaxEntries }

\* configurations of importData: everything enabled, or the private file
\* tree disabled and no onCustomItem handler
OptSet == { [opfs |-> TRUE, onCustomItem |-> TRUE],
            [opfs |-> FALSE, onCustomItem |-> FALSE] }

\* a filename of len characters "a" with "/" at the 0-based offsets in sl
PathOf(len, sl) == [i \in 1..len |-> IF (i - 1) \in sl THEN CHAR_SLASH ELSE 97]

HeaderLens == {1, 99, 100, 101, 102, 154, 155, 156, 200, 254, 255, 256, 260}

SlashOffsets(len) ==
    {0, 1, len - 101, len - 100, len - 99, 153, 154, 155, len - 1} \cap (0..(len - 1))

\* paths made of the highest ASCII character, for the largest byte sums
HighPaths == { [i \in 1..len |-> 127] : len \in {NAME_LEN, NAME_LEN + PREFIX_LEN} }

HeaderPaths ==
    HighPaths \cup
    UNION { { PathOf(len, sl) :
                sl \in {x \in SUBSET SlashOffsets(len) : Cardinality(x) <= MaxSlashes} } :
            len \in HeaderLens }

---------------------------------------------------------------------------
(* States in which a part of the program is not running                    *)

HdrOff ==
    /\ hName = <<>> /\ hSize = 0 /\ hIsDir = FALSE /\ hMtime = 0
    /\ hBuf = <<>> /\ hDecName = <<>> /\ hDecSize = 0 /\ hPc = "off"

WriterOff ==
    /\ wEntries = <<>> /\ wIdx = 0 /\ wPos = 0 /\ wSink = <<>>
    /\ wPc = "off" /\ wOff = 0

ImportOff ==
    /\ iCut = 0 /\ iOff = 0 /\ iBuf = <<>> /\ iDone = FALSE /\ iPc = "off"
    /\ iName = <<>> /\ iSize = 0 /\ iRemaining = 0 /\ iFileW = <<>>
    /\ iDispatched = <<>> /\ iLog = "none"

CipherOff ==
    /\ ePw = <<>> /\ eSalt = <<>> /\ ePlain = <<>> /\ eTape = <<>> /\ eDrawn = 0
    /\ eFed = 0 /\ eBuf = <<>> /\ eOut = <<>> /\ ePc = "off"
    /\ cFile = <<>> /\ cMode = [kind |-> "none", at |-> 0, pos |-> 0] /\ cEnd = -1
    /\ dPw = <<>> /\ dOff = 0 /\ dBuf = <<>> /\ dDone = FALSE /\ dPc = "off"
    /\ dKey = <<>> /\ dIv = <<>> /\ dLen = 0 /\ dOut = <<>> /\ dErr = ""

ChainOff ==
    /\ gPc = "off" /\ gIn = <<>> /\ gTaken = 0 /\ gOut = <<>> /\ gErr = ""

ExportOff ==
    /\ xPw = FALSE /\ xBlob = FALSE /\ xFail = 0 /\ xPc = "off" /\ xNext = 0
    /\ xAck = FALSE /\ xLog = "none" /\ xClicked = FALSE
    /\ downloadUrl = FALSE /\ xStages = <<>>

ValueOff ==
    /\ vItem = <<>> /\ vPrep = <<>> /\ vBack = <<>> /\ vAgain = <<>>
    /\ vPc = "off"

RunOff ==
    /\ rCall = "none" /\ rEnv = <<>> /\ rPc = "off" /\ rStep = 0
    /\ rOps = <<>> /\ rOut = <<>> /\ rPaths = <<>> /\ rLog = <<>>

FilterOff ==
    /\ fOpts = <<>> /\ fCat = "" /\ fPath = <<>> /\ fAllowed = FALSE
    /\ fTree = <<>> /\ fStack = <<>> /\ fWritten = <<>> /\ fPc = "off"

OctalOff ==
    /\ oDigits = <<>> /\ oField = <<>> /\ oDec = <<>> /\ oPc = "off"

BatchOff ==
    /\ bStore = <<>> /\ bLastKey = [null |-> TRUE, k |-> 0] /\ bHasMore = FALSE /\ bChunkId = 0
    /\ bBatch = <<>> /\ bOut = <<>> /\ bPc = "off"

SerialOff ==
    /\ sGraph = <<>> /\ sStack = <<>> /\ counts = <<>> /\ idMap = <<>> /\ declarations = <<>>
    /\ populationQueue = <<>> /\ sDone = 0 /\ updates = <<>>
    /\ refCounter = 0 /\ rootResult = <<>> /\ sPc = "off"

UtilOff == FilterOff /\ OctalOff /\ BatchOff /\ SerialOff

---------------------------------------------------------------------------
(* createTarHeader and the reader's decoding, on one input                 *)

HdrInit ==
    /\ hName \in HeaderPaths
    /\ hSize \in {0, 1, BLOCK + 1}
    /\ hIsDir \in BOOLEAN
    /\ hMtime = NowSecs
    /\ hBuf = <<>> /\ hDecName = <<>> /\ hDecSize = 0
    /\ hPc = "input"

HBuild ==
    /\ hPc = "input"
    /\ hBuf' = CreateTarHeader(hName, hSize, hIsDir, hMtime)
    /\ hPc' = "built"
    /\ UNCHANGED <<hName, hSize, hIsDir, hMtime, hDecName, hDecSize>>
    /\ UNCHANGED <<wVars, iVars, eVars, cVars, dVars, gVars, xVars, vVars, rVars, uVars>>

HDecode ==
    /\ hPc = "built"
    /\ hDecName' = DecodeName(hBuf)
    /\ hDecSize' = DecodeSize(hBuf)
    /\ hPc' = "decoded"
    /\ UNCHANGED <<hName, hSize, hIsDir, hMtime, hBuf>>
    /\ UNCHANGED <<wVars, iVars, eVars, cVars, dVars, gVars, xVars, vVars, rVars, uVars>>

SpecHeaderInit ==
    /\ UtilOff
    /\ HdrInit /\ WriterOff /\ ImportOff /\ CipherOff /\ ChainOff /\ ExportOff
    /\ ValueOff /\ RunOff
    /\ opts = [opfs |-> TRUE, onCustomItem |-> TRUE]

SpecHeaderNext == HBuild \/ HDecode

SpecHeader == SpecHeaderInit /\ [][SpecHeaderNext]_vars

\* C10 (as stated): for every path longer than 100 bytes the reader's
\* rejoined prefix + "/" + name equals the path given to createTarHeader.
C10_LongPathRoundTrip ==
    (hPc = "decoded" /\ Len(hName) > NAME_LEN) => hDecName = hName

CHK_OFF    == 148
CHK_LEN    == 8
CHK_DIGITS == 6

\* the sum of the octets of s
RECURSIVE OctetSum(_)
OctetSum(s) ==
    IF Len(s) = 0 THEN 0
    ELSE IF Len(s) = 1 THEN s[1]
    ELSE LET h == Len(s) \div 2
         IN  OctetSum(SubSeq(s, 1, h)) + OctetSum(SubSeq(s, h + 1, Len(s)))

\* the header with its checksum field counted as spaces
Blanked(header) ==
    SubSeq(header, 1, CHK_OFF) \o Repeat(CHAR_SPACE, CHK_LEN)
        \o SubSeq(header, CHK_OFF + CHK_LEN + 1, Len(header))

\* C11: in every header createTarHeader returns, the checksum field holds
\* the octal digits of the sum of the 512 octets with the checksum field
\* counted as 8 spaces, the sum has no more digits than are written, and
\* the field read back as an octal number is that sum.
C11_ChecksumIsByteSum ==
    hPc \in {"built", "decoded"} =>
        LET sum == OctetSum(Blanked(hBuf))
        IN  /\ Len(hBuf) = BLOCK
            /\ Len(ToOctal(sum)) <= CHK_DIGITS
            /\ Slice(hBuf, CHK_OFF, CHK_OFF + CHK_DIGITS)
                   = PadStart(ToOctal(sum), CHK_DIGITS)
            /\ ParseIntOctal(Slice(hBuf, CHK_OFF, CHK_OFF + CHK_LEN)).val = sum
            /\ ~ParseIntOctal(Slice(hBuf, CHK_OFF, CHK_OFF + CHK_LEN)).nan

\* a header with a prefix field, of a directory, was built
C11_Witness ==
    /\ hPc = "built" /\ hIsDir /\ Len(hName) = NAME_LEN + PREFIX_LEN
    /\ hName \in HighPaths

---------------------------------------------------------------------------
(* TarWriter. A writer is the record [sink, pos]: the bytes handed to      *)
(* this.writer.write so far, and this.pos.                                 *)

\* async write(chunk)
TarWrite(w, chunk) == [sink |-> w.sink \o chunk, pos |-> w.pos + Len(chunk)]

\* a pad() that writes a whole block of zeros at a block boundary
TarPad_FullBlock(w) ==
    TarWrite(w, Zeros(BLOCK - (w.pos % BLOCK)))

\* async pad()
TarPad(w) ==
    LET padding == (BLOCK - (w.pos % BLOCK)) % BLOCK
    IN  IF padding > 0 THEN TarWrite(w, Zeros(padding)) ELSE w

\* async writeEntry(path, data)
TarWriteEntry(w, path, bytes, now) ==
    TarPad(TarWrite(TarWrite(w, CreateTarHeader(path, Len(bytes), FALSE, now)), bytes))

Writer == [sink |-> wSink, pos |-> wPos]

WriterInit ==
    /\ wEntries \in EntrySeqs
    /\ wIdx = 0 /\ wPos = 0 /\ wSink = <<>> /\ wPc = "idle" /\ wOff = 0

\* exportData calls tar.writeEntry for the next entry (lines 139-144)
WriteEntry ==
    /\ wPc = "idle" /\ wIdx < Len(wEntries)
    /\ LET e == wEntries[wIdx + 1]
           w == TarWriteEntry(Writer, e.path, Payload(e.path, e.size), NowSecs)
       IN  /\ ~e.viaStream
           /\ wSink' = w.sink /\ wPos' = w.pos
    /\ wIdx' = wIdx + 1
    /\ UNCHANGED <<wEntries, wPc, wOff>>
    /\ UNCHANGED <<hdrVars, iVars, eVars, cVars, dVars, gVars, xVars, vVars, rVars, uVars>>

\* tar.writeStream up to the start of pipeTo (line 146)
WriteStreamBegin ==
    /\ wPc = "idle" /\ wIdx < Len(wEntries)
    /\ LET e == wEntries[wIdx + 1]
           w == TarWrite(Writer, CreateTarHeader(e.path, e.size, FALSE, NowSecs))
       IN  /\ e.viaStream
           /\ wSink' = w.sink /\ wPos' = w.pos
    /\ wPc' = "piping" /\ wOff' = 0
    /\ UNCHANGED <<wEntries, wIdx>>
    /\ UNCHANGED <<hdrVars, iVars, eVars, cVars, dVars, gVars, xVars, vVars, rVars, uVars>>

\* one chunk of the piped stream reaches the write callback (lines 149-151)
WriteStreamChunk ==
    /\ wPc = "piping"
    /\ LET e == wEntries[wIdx + 1]
       IN  /\ wOff < e.size
           /\ \E n \in ChunkSizes :
                LET chunk == Slice(Payload(e.path, e.size), wOff, wOff + n)
                    w == TarWrite(Writer, chunk)
                IN  /\ wSink' = w.sink /\ wPos' = w.pos
                    /\ wOff' = wOff + Len(chunk)
    /\ UNCHANGED <<wEntries, wIdx, wPc>>
    /\ UNCHANGED <<hdrVars, iVars, eVars, cVars, dVars, gVars, xVars, vVars, rVars, uVars>>

\* the piped stream has ended: pipeTo resolves, then pad() (line 154)
WriteStreamEnd ==
    /\ wPc = "piping"
    /\ wOff >= wEntries[wIdx + 1].size
    /\ LET w == TarPad(Writer)
       IN  wSink' = w.sink /\ wPos' = w.pos
    /\ wPc' = "idle" /\ wIdx' = wIdx + 1 /\ wOff' = 0
    /\ UNCHANGED wEntries
    /\ UNCHANGED <<hdrVars, iVars, eVars, cVars, dVars, gVars, xVars, vVars, rVars, uVars>>

\* tar.close() (lines 164-167)
WriterClose ==
    /\ wPc = "idle" /\ wIdx = Len(wEntries)
    /\ LET w == TarWrite(Writer, Zeros(2 * BLOCK))
       IN  wSink' = w.sink /\ wPos' = w.pos
    /\ wPc' = "closed"
    /\ UNCHANGED <<wEntries, wIdx, wOff>>
    /\ UNCHANGED <<hdrVars, iVars, eVars, cVars, dVars, gVars, xVars, vVars, rVars, uVars>>

---------------------------------------------------------------------------
(* importData: the reader over inputStream. The reader's state is the      *)
(* record Imp; a reader.read() result is [done, value].                    *)

Imp == [buf |-> iBuf, done |-> iDone, pc |-> iPc, name |-> iName,
        size |-> iSize, remaining |-> iRemaining, fileW |-> iFileW,
        dispatched |-> iDispatched, log |-> iLog]

SetImp(r) ==
    /\ iBuf' = r.buf /\ iDone' = r.done /\ iPc' = r.pc /\ iName' = r.name
    /\ iSize' = r.size /\ iRemaining' = r.remaining /\ iFileW' = r.fileW
    /\ iDispatched' = r.dispatched /\ iLog' = r.log

\* the storage backend an in-memory entry is handed to (lines 736-747),
\* "none" when no branch takes it; window.CBOR is present and opts.idb is
\* not false
MemoryTarget(name, o) ==
    IF name = STR_LS THEN "localStorage"
    ELSE IF name = STR_SS THEN "sessionStorage"
    ELSE IF name = STR_COOKIES THEN "cookies"
    ELSE IF StartsWith(name, STR_CUSTOM) /\ o.onCustomItem THEN "custom"
    ELSE IF StartsWith(name, STR_IDB) THEN "idb"
    ELSE "none"

\* the loop exit of line 718, 720 or 726, then lines 825-826
ImportComplete(r) == [r EXCEPT !.pc = "end", !.log = "complete"]

\* the catch of lines 827-830
ImportError(r, msg) == [r EXCEPT !.pc = "end", !.log = msg]

\* an ensure that puts a new chunk in front of the buffered bytes
OnEnsureRead_Prepends(r, res) ==
    IF res.done THEN [r EXCEPT !.done = TRUE]
    ELSE [r EXCEPT !.buf = res.value \o r.buf]

\* one reader.read() result inside ensure (lines 646-653)
OnEnsureRead(r, res) ==
    IF res.done THEN [r EXCEPT !.done = TRUE]
    ELSE [r EXCEPT !.buf = r.buf \o res.value]

\* skipBytes(bytes) up to its first reader.read() or its return
\* (lines 694-699): buffered bytes are dropped first
SkipBuffered(buf, bytes) ==
    LET take == IF bytes > 0 THEN Min(Len(buf), bytes) ELSE 0
    IN  [buf |-> SliceFrom(buf, take), remaining |-> bytes - take]

\* await skipBytes(padding) of line 822 (or 730), then the next iteration
EnterPad(r) ==
    LET k == SkipBuffered(r.buf, Padding(r.size))
    IN  IF k.remaining > 0
        THEN [r EXCEPT !.buf = k.buf, !.remaining = k.remaining, !.pc = "pad"]
        ELSE [r EXCEPT !.buf = k.buf, !.remaining = 0, !.pc = "header"]

\* await skipBytes(size) of line 819
EnterSkip(r) ==
    LET k == SkipBuffered(r.buf, r.size)
    IN  IF k.remaining > 0
        THEN [r EXCEPT !.buf = k.buf, !.remaining = k.remaining, !.pc = "skip"]
        ELSE EnterPad([r EXCEPT !.buf = k.buf, !.remaining = 0])

\* a skipBytes that does not keep what a chunk holds beyond the skipped bytes
OnSkipRead_DropsExcess(r, res) ==
    LET after ==
            IF res.done THEN [r EXCEPT !.done = TRUE]
            ELSE IF Len(res.value) <= r.remaining
            THEN [r EXCEPT !.remaining = r.remaining - Len(res.value)]
            ELSE [r EXCEPT !.remaining = 0]
        leaves == res.done \/ after.remaining = 0
    IN  IF ~leaves THEN after
        ELSE IF r.pc = "skip" THEN EnterPad(after)
        ELSE [after EXCEPT !.pc = "header"]

\* one reader.read() result inside skipBytes (lines 701-710)
OnSkipRead(r, res) ==
    LET after ==
            IF res.done THEN [r EXCEPT !.done = TRUE]
            ELSE IF Len(res.value) <= r.remaining
            THEN [r EXCEPT !.remaining = r.remaining - Len(res.value)]
            ELSE [r EXCEPT !.buf = SliceFrom(res.value, r.remaining),
                           !.remaining = 0]
        leaves == res.done \/ after.remaining = 0
    IN  IF ~leaves THEN after
        ELSE IF r.pc = "skip" THEN EnterPad(after)
        ELSE [after EXCEPT !.pc = "header"]

\* streamToFile(writable, size) up to its first reader.read()
\* (lines 663-670)
EnterStream(r) ==
    LET toWrite == IF Len(r.buf) > 0 THEN Min(Len(r.buf), r.size) ELSE 0
    IN  [r EXCEPT !.fileW = Slice(r.buf, 0, toWrite),
                  !.buf = SliceFrom(r.buf, toWrite),
                  !.remaining = r.size - toWrite,
                  !.pc = IF r.size - toWrite > 0 THEN "stream" ELSE "close"]

\* one reader.read() result inside streamToFile (lines 672-684)
OnStreamRead(r, res) ==
    IF res.done THEN [r EXCEPT !.done = TRUE, !.pc = "close"]
    ELSE IF Len(res.value) <= r.remaining
    THEN [r EXCEPT !.fileW = r.fileW \o res.value,
                   !.remaining = r.remaining - Len(res.value),
                   !.pc = IF r.remaining - Len(res.value) > 0
                          THEN "stream" ELSE "close"]
    ELSE [r EXCEPT !.fileW = r.fileW \o Slice(res.value, 0, r.remaining),
                   !.buf = SliceFrom(res.value, r.remaining),
                   !.remaining = 0,
                   !.pc = "close"]

\* await writer.close() of line 686: the file is stored with what was
\* written; then line 822
OnStreamClose(r) ==
    EnterPad([r EXCEPT
        !.dispatched = Append(r.dispatched,
            [target |-> "opfs", name |-> r.name, size |-> r.size,
             data |-> r.fileW]),
        !.fileW = <<>>])

\* a header loop that takes a size that is no number for an empty entry
OnHeader_NanAsZero(r, o) ==
    IF Len(r.buf) < BLOCK THEN ImportComplete(r)
    ELSE LET header == Slice(r.buf, 0, BLOCK)
             rest   == SliceFrom(r.buf, BLOCK)
             size   == DecodeSize(header)
             r1     == [r EXCEPT !.buf = rest, !.name = DecodeName(header),
                                 !.size = size.val]
         IN  IF AllZero(header) THEN ImportComplete([r EXCEPT !.buf = rest])
             ELSE IF size.val = 0 THEN EnterPad(r1)
             ELSE IF StartsWith(r1.name, STR_DATA) THEN [r1 EXCEPT !.pc = "mem"]
             ELSE IF o.opfs THEN EnterStream(r1)
             ELSE EnterSkip(r1)

\* one iteration of the header loop from the return of ensure(512) to the
\* next read (lines 718-734, 806-819)
OnHeader(r, o) ==
    IF Len(r.buf) < BLOCK THEN ImportComplete(r)
    ELSE LET header == Slice(r.buf, 0, BLOCK)
             rest   == SliceFrom(r.buf, BLOCK)
             size   == DecodeSize(header)
             r1     == [r EXCEPT !.buf = rest, !.name = DecodeName(header),
                                 !.size = size.val]
         IN  IF AllZero(header) THEN ImportComplete([r EXCEPT !.buf = rest])
             ELSE IF size.nan THEN ImportComplete([r EXCEPT !.buf = rest])
             ELSE IF size.val = 0 THEN EnterPad(r1)
             ELSE IF StartsWith(r1.name, STR_DATA) THEN [r1 EXCEPT !.pc = "mem"]
             ELSE IF o.opfs THEN EnterStream(r1)
             ELSE EnterSkip(r1)

\* readToMemory from the return of ensure(size), the dispatch of the
\* entry, then line 822 (lines 688-692, 735-804)
OnMemory(r, o) ==
    IF Len(r.buf) < r.size THEN ImportError(r, "Unexpected EOF in system file")
    ELSE LET d == Slice(r.buf, 0, r.size)
             t == MemoryTarget(r.name, o)
         IN  EnterPad([r EXCEPT
                 !.buf = SliceFrom(r.buf, r.size),
                 !.dispatched =
                     IF t = "none" THEN r.dispatched
                     ELSE Append(r.dispatched,
                                 [target |-> t, name |-> r.name,
                                  size |-> r.size, data |-> d])])

\* the same point when the handler the entry is dispatched to throws
\* (JSON.parse, CBOR.decode or opts.onCustomItem, lines 737-793): the
\* payload was consumed, the catch of lines 827-830 reports the error
OnMemoryThrows(r, o) ==
    ImportError([r EXCEPT !.buf = SliceFrom(r.buf, r.size)], "handler error")

\* the number of bytes ensure is waiting for
EnsureNeed == IF iPc = "header" THEN BLOCK ELSE iSize

---------------------------------------------------------------------------
(* importData on an uncompressed container: inputStream is file.stream()   *)
(* (line 637) and the file holds the first iCut bytes of the sink.         *)

\* where a file of len bytes may be cut short
CutPoints(len) ==
    {len, len - 2 * BLOCK} \cup {c \in 0..(len - 1) : c % CutStride = 0}

\* reader.read() on the file stream: the next chunk of at most n bytes
FileRead(n) ==
    IF iOff >= iCut THEN [done |-> TRUE, value |-> <<>>, threw |-> FALSE, msg |-> ""]
    ELSE [done |-> FALSE, value |-> Slice(wSink, iOff, Min(iOff + n, iCut)),
          threw |-> FALSE, msg |-> ""]

\* reader.read() on the readable side of the DecompressionStream: the
\* next queued chunk, the end, or the rejection with the stored error
ChainRead ==
    IF gOut # <<>>
    THEN [done |-> FALSE, value |-> Head(gOut), threw |-> FALSE, msg |-> ""]
    ELSE IF gPc = "errored"
    THEN [done |-> FALSE, value |-> <<>>, threw |-> TRUE, msg |-> gErr]
    ELSE [done |-> TRUE, value |-> <<>>, threw |-> FALSE, msg |-> ""]

\* reader.read() on inputStream (line 640), whichever chain was built
ReaderRead(n) == IF gPc = "off" THEN FileRead(n) ELSE ChainRead

\* the read can be answered now
ReaderReady == gPc = "off" \/ gOut # <<>> \/ gPc \in {"closed", "errored"}

\* what the read takes from the source
ReaderAdvance(res) ==
    /\ iOff' = IF gPc = "off" THEN iOff + Len(res.value) ELSE iOff
    /\ gOut' = IF gPc # "off" /\ ~res.done /\ ~res.threw THEN Tail(gOut) ELSE gOut
    /\ UNCHANGED <<gPc, gIn, gTaken, gErr>>

\* a rejected reader.read() leaves the try block for the catch of line 827
OrThrown(r, res, next) == IF res.threw THEN ImportError(r, res.msg) ELSE next

ImportInit ==
    /\ opts \in OptSet
    /\ ImportOff

\* importData(file) up to the header loop (lines 608-642, 715)
ImportStart ==
    /\ wPc = "closed" /\ iPc = "off"
    /\ \E c \in CutPoints(Len(wSink)) : iCut' = c
    /\ iPc' = "header"
    /\ UNCHANGED <<opts, iOff, iBuf, iDone, iName, iSize, iRemaining, iFileW,
                   iDispatched, iLog>>
    /\ UNCHANGED <<hdrVars, wVars, eVars, cVars, dVars, gVars, xVars, vVars, rVars, uVars>>

\* a reader.read() inside ensure (line 646)
EnsureRead ==
    /\ iPc \in {"header", "mem"} /\ Len(iBuf) < EnsureNeed /\ ~iDone
    /\ ReaderReady
    /\ \E n \in ChunkSizes :
          LET res == ReaderRead(n)
          IN  /\ SetImp(OrThrown(Imp, res, OnEnsureRead(Imp, res)))
              /\ ReaderAdvance(res)
    /\ UNCHANGED <<opts, iCut>>
    /\ UNCHANGED <<hdrVars, wVars, eVars, cVars, dVars, xVars, vVars, rVars, uVars>>

\* ensure(512) has returned (line 718)
HeaderStep ==
    /\ iPc = "header" /\ (Len(iBuf) >= BLOCK \/ iDone)
    /\ SetImp(OnHeader(Imp, opts))
    /\ UNCHANGED <<opts, iCut, iOff>>
    /\ UNCHANGED <<hdrVars, wVars, eVars, cVars, dVars, gVars, xVars, vVars, rVars, uVars>>

\* ensure(size) of readToMemory has returned (line 689)
MemoryStep ==
    /\ iPc = "mem" /\ (Len(iBuf) >= iSize \/ iDone)
    /\ SetImp(OnMemory(Imp, opts))
    /\ UNCHANGED <<opts, iCut, iOff>>
    /\ UNCHANGED <<hdrVars, wVars, eVars, cVars, dVars, gVars, xVars, vVars, rVars, uVars>>

\* ensure(size) of readToMemory has returned and the entry's handler
\* throws
MemoryStepThrows ==
    /\ iPc = "mem" /\ Len(iBuf) >= iSize
    /\ MemoryTarget(iName, opts) # "none"
    /\ SetImp(OnMemoryThrows(Imp, opts))
    /\ UNCHANGED <<opts, iCut, iOff>>
    /\ UNCHANGED <<hdrVars, wVars, eVars, cVars, dVars, gVars, xVars, vVars, rVars, uVars>>

\* a reader.read() inside streamToFile (line 672)
StreamRead ==
    /\ iPc = "stream"
    /\ ReaderReady
    /\ \E n \in ChunkSizes :
          LET res == ReaderRead(n)
          IN  /\ SetImp(OrThrown(Imp, res, OnStreamRead(Imp, res)))
              /\ ReaderAdvance(res)
    /\ UNCHANGED <<opts, iCut>>
    /\ UNCHANGED <<hdrVars, wVars, eVars, cVars, dVars, xVars, vVars, rVars, uVars>>

\* writer.close() of streamToFile (line 686)
StreamClose ==
    /\ iPc = "close"
    /\ SetImp(OnStreamClose(Imp))
    /\ UNCHANGED <<opts, iCut, iOff>>
    /\ UNCHANGED <<hdrVars, wVars, eVars, cVars, dVars, gVars, xVars, vVars, rVars, uVars>>

\* a reader.read() inside skipBytes (line 701)
SkipRead ==
    /\ iPc \in {"skip", "pad"}
    /\ ReaderReady
    /\ \E n \in ChunkSizes :
          LET res == ReaderRead(n)
          IN  /\ SetImp(OrThrown(Imp, res, OnSkipRead(Imp, res)))
              /\ ReaderAdvance(res)
    /\ UNCHANGED <<opts, iCut>>
    /\ UNCHANGED <<hdrVars, wVars, eVars, cVars, dVars, xVars, vVars, rVars, uVars>>

SpecTarInit ==
    /\ UtilOff
    /\ HdrOff /\ WriterInit /\ ImportInit /\ CipherOff /\ ChainOff /\ ExportOff
    /\ ValueOff /\ RunOff

SpecTarNext ==
    \/ WriteEntry \/ WriteStreamBegin \/ WriteStreamChunk \/ WriteStreamEnd
    \/ WriterClose
    \/ ImportStart \/ EnsureRead \/ HeaderStep \/ MemoryStep
    \/ StreamRead \/ StreamClose \/ SkipRead

SpecTar == SpecTarInit /\ [][SpecTarNext]_vars

---------------------------------------------------------------------------
(* Where the records of the written archive lie (used to state claims)     *)

\* bytes one entry of the given size takes in the container
EntrySpan(size) == BLOCK + size + Padding(size)

\* 0-based offset of the header of entry k; k = Len(es) + 1 gives the
\* offset of the end-of-archive records
RECURSIVE HeaderOffset(_, _)
HeaderOffset(es, k) ==
    IF k <= 1 THEN 0 ELSE HeaderOffset(es, k - 1) + EntrySpan(es[k - 1].size)

\* the source ends at a header boundary or inside a header, before the
\* first end-of-archive record is complete
CutInHeader(es, c) ==
    \E k \in 1..(Len(es) + 1) :
        HeaderOffset(es, k) <= c /\ c < HeaderOffset(es, k) + BLOCK

\* the source ends inside the payload of some entry
CutInPayload(es, c) ==
    \E k \in 1..Len(es) :
        /\ HeaderOffset(es, k) + BLOCK <= c
        /\ c < HeaderOffset(es, k) + BLOCK + es[k].size

AllEnabled == opts.opfs /\ opts.onCustomItem

\* what a faithful import of the entries es hands to the backends
Restored(es) ==
    [k \in 1..Len(es) |->
        [name |-> es[k].path, size |-> es[k].size,
         data |-> Payload(es[k].path, es[k].size)]]

\* what importData handed to the backends, without the target
Delivered ==
    [k \in 1..Len(iDispatched) |->
        [name |-> iDispatched[k].name, size |-> iDispatched[k].size,
         data |-> iDispatched[k].data]]

\* C1 (as stated): an archive written by TarWriter and parsed whole by the
\* header loop dispatches exactly the written entries, in order, with the
\* same path, size and payload bytes, the entries of size 0 included.
C1_RoundTrip ==
    (iPc = "end" /\ iCut = Len(wSink) /\ AllEnabled)
        => (iLog = "complete" /\ Delivered = Restored(wEntries))

\* C6 (as stated): when the source ends at a header boundary or inside a
\* header, before an all-zero header was read, importData does not finish
\* with "Import complete!".
C6_TruncatedHeaderIsError ==
    (iPc = "end" /\ CutInHeader(wEntries, iCut)) => iLog # "complete"

\* C7 (as stated): when the source ends inside an entry's payload,
\* importData ends with an error, and no entry is restored with fewer
\* bytes than its header declares.
C7_TruncatedPayloadIsError ==
    (iPc = "end" /\ AllEnabled /\ CutInPayload(wEntries, iCut))
        => (/\ iLog # "complete"
            /\ \A k \in 1..Len(iDispatched) :
                  Len(iDispatched[k].data) = iDispatched[k].size)

\* the path carries the prefix of a collaborator of the import (lines
\* 736-747, 807)
Recognized(name) ==
    \/ name \in {STR_LS, STR_SS, STR_COOKIES}
    \/ StartsWith(name, STR_CUSTOM) \/ StartsWith(name, STR_IDB)
    \/ StartsWith(name, STR_OPFS)

\* C18: an entry whose path carries no collaborator's prefix causes no
\* write to a storage backend: nothing is dispatched for it and no file of
\* the private file tree is opened or written for it.
C18_UnmatchedIgnored ==
    /\ \A k \in 1..Len(iDispatched) : Recognized(iDispatched[k].name)
    /\ iPc \in {"stream", "close"} => Recognized(iName)

\* the container of the first k entries of es as the format lays it out:
\* header, payload, zero bytes up to the next 512-byte boundary
RECURSIVE Layout(_, _)
Layout(es, k) ==
    IF k = 0 THEN <<>>
    ELSE Layout(es, k - 1)
         \o CreateTarHeader(es[k].path, es[k].size, FALSE, NowSecs)
         \o Payload(es[k].path, es[k].size)
         \o Zeros(Padding(es[k].size))

\* C21: TarWriter's position counter always equals the number of bytes
\* handed to the sink; after every completed writeEntry or writeStream it
\* is a multiple of 512 and the sink holds, for each entry written, its
\* header, its payload and zero bytes up to the next 512-byte boundary;
\* close appends exactly two all-zero 512-byte records. (Stated for the
\* states before the archive is read back: reading does not change it.)
C21_WriterLayout ==
    (wPc # "off" /\ iPc = "off") =>
        /\ wPos = Len(wSink)
        /\ wPc = "idle" => wPos % BLOCK = 0 /\ wSink = Layout(wEntries, wIdx)
        /\ wPc = "closed" =>
              /\ wPos % BLOCK = 0
              /\ wSink = Layout(wEntries, Len(wEntries)) \o Zeros(2 * BLOCK)

\* an archive of two entries was closed, the first entry streamed with a
\* payload of a whole block
C21_Witness ==
    /\ wPc = "closed" /\ Len(wEntries) = 2
    /\ wEntries[1].viaStream /\ wEntries[1].size = BLOCK
    /\ wEntries[2].size = BLOCK + 1

\* how many source bytes have left the reader's buffer, handed out or
\* discarded
Consumed == iOff - Len(iBuf)

\* C19: the reader conserves the source's bytes. The buffer holds exactly
\* the source bytes between what has left it and what was read, in source
\* order; the end of the source is recorded only when the source was read
\* to its end, and ensure(512) returns with fewer than 512 bytes buffered
\* only then; the bytes streamToFile has written are the source bytes
\* right before the buffer, and with what it still has to write they make
\* up the entry's size; every payload handed to a backend is the source's
\* bytes at that entry's place.
C19_ReaderConservesBytes ==
    iPc # "off" =>
        /\ 0 <= Consumed /\ iOff <= iCut
        /\ iBuf = Slice(wSink, Consumed, iOff)
        /\ iDone => iOff = iCut
        /\ (iPc \in {"header", "mem"} /\ Len(iBuf) < EnsureNeed /\ ~iDone)
              => ~ENABLED (HeaderStep \/ MemoryStep)
        /\ iPc \in {"stream", "close"} =>
              /\ iFileW = Slice(wSink, Consumed - Len(iFileW), Consumed)
              /\ iPc = "stream" => Len(iFileW) + iRemaining = iSize
        /\ \A k \in 1..Len(iDispatched) :
              \E j \in 1..Len(wEntries) :
                  LET from == HeaderOffset(wEntries, j) + BLOCK
                  IN  /\ iDispatched[k].name = wEntries[j].path
                      /\ iDispatched[k].data =
                            Slice(wSink, from, Min(from + wEntries[j].size, iCut))

\* a file was restored from a source read in chunks that end inside its
\* payload, with bytes of the next header left in the buffer
C19_Witness ==
    /\ iPc = "header" /\ iBuf # <<>> /\ Len(iDispatched) > 0
    /\ iDispatched[Len(iDispatched)].target = "opfs"
    /\ iDispatched[Len(iDispatched)].size = BigSize
    /\ Consumed % BLOCK = 0

\* C20: in an untruncated archive every header is read at the offset
\* where the entries before it end, each taking 512 + size + padding
\* bytes, whichever branch handles it: whenever the parser is about to
\* read a header, what has left the buffer ends at a header's offset; in
\* the middle of an entry what is still to be skipped or streamed ends at
\* the payload's or the padding's end.
C20_EntrySpanConsumed ==
    (iPc \notin {"off", "end"} /\ iCut = Len(wSink)) =>
        \E k \in 1..(Len(wEntries) + 1) :
            LET at == HeaderOffset(wEntries, k)
            IN  IF iPc = "header" THEN Consumed = at /\ at % BLOCK = 0
                ELSE /\ k <= Len(wEntries) /\ iSize = wEntries[k].size
                     /\ iPc = "mem" => Consumed = at + BLOCK
                     /\ iPc \in {"skip", "stream"} =>
                           Consumed + iRemaining = at + BLOCK + iSize
                     /\ iPc = "close" => Consumed = at + BLOCK + iSize
                     /\ iPc = "pad" =>
                           Consumed + iRemaining = at + EntrySpan(iSize)

\* the second header of an archive is about to be read after an entry of
\* BLOCK + 1 bytes was skipped because its category is disabled
C20_Witness ==
    /\ iCut = Len(wSink) /\ iPc = "header" /\ ~opts.opfs
    /\ Len(wEntries) = 2 /\ wEntries[1].size = BLOCK + 1
    /\ ~StartsWith(wEntries[1].path, STR_DATA)
    /\ Consumed = HeaderOffset(wEntries, 2)

---------------------------------------------------------------------------
(* importData on an archive one of whose headers carries a size field     *)
(* that is no octal number.                                                *)

\* size fields parseInt(..., 8) gives NaN for: blank, all NUL, a first
\* character that is no octal digit ("8...", "zzz...")
SizeDamages ==
    { Repeat(CHAR_SPACE, SIZE_LEN), Zeros(SIZE_LEN),
      <<CHAR_ZERO + 8>> \o Repeat(CHAR_ZERO, SIZE_LEN - 1),
      Repeat(122, SIZE_LEN) }

\* the file handed to importData is the written archive with the size
\* field of the header of entry k replaced
DamageSize ==
    /\ wPc = "closed" /\ iPc = "off"
    /\ \E k \in 1..Len(wEntries), f \in SizeDamages :
          LET at == HeaderOffset(wEntries, k) + SIZE_OFF
          IN  wSink' = Slice(wSink, 0, at) \o f \o SliceFrom(wSink, at + SIZE_LEN)
    /\ wPc' = "damaged"
    /\ UNCHANGED <<wEntries, wIdx, wPos, wOff>>
    /\ UNCHANGED <<hdrVars, iVars, eVars, cVars, dVars, gVars, xVars, vVars, rVars, uVars>>

\* importData(file) on that file, whole, up to the header loop
ImportStartDamaged ==
    /\ wPc = "damaged" /\ iPc = "off"
    /\ iCut' = Len(wSink)
    /\ iPc' = "header"
    /\ UNCHANGED <<opts, iOff, iBuf, iDone, iName, iSize, iRemaining, iFileW,
                   iDispatched, iLog>>
    /\ UNCHANGED <<hdrVars, wVars, eVars, cVars, dVars, gVars, xVars, vVars, rVars, uVars>>

SpecMalformedInit == SpecTarInit

SpecMalformedNext ==
    \/ WriteEntry \/ WriteStreamBegin \/ WriteStreamChunk \/ WriteStreamEnd
    \/ WriterClose
    \/ DamageSize \/ ImportStartDamaged
    \/ EnsureRead \/ HeaderStep \/ MemoryStep
    \/ StreamRead \/ StreamClose \/ SkipRead

SpecMalformed == SpecMalformedInit /\ [][SpecMalformedNext]_vars

\* the first entry whose header in the file has a size that is no number
FirstBad ==
    CHOOSE k \in 1..Len(wEntries) :
        /\ DecodeSize(Slice(wSink, HeaderOffset(wEntries, k),
                            HeaderOffset(wEntries, k) + BLOCK)).nan
        /\ \A j \in 1..(k - 1) :
              ~DecodeSize(Slice(wSink, HeaderOffset(wEntries, j),
                                HeaderOffset(wEntries, j) + BLOCK)).nan

\* the entry is handed to a backend under the options o
IsDispatched(e, o) ==
    /\ e.size > 0
    /\ IF StartsWith(e.path, STR_DATA) THEN MemoryTarget(e.path, o) # "none"
       ELSE o.opfs

\* the entries before entry k that are handed to a backend, as restored
RECURSIVE RestoredBefore(_, _, _)
RestoredBefore(es, k, o) ==
    IF k <= 1 THEN <<>>
    ELSE RestoredBefore(es, k - 1, o)
         \o (IF IsDispatched(es[k - 1], o)
             THEN <<[name |-> es[k - 1].path, size |-> es[k - 1].size,
                     data |-> Payload(es[k - 1].path, es[k - 1].size)]>>
             ELSE <<>>)

\* C23: a header that is not all-zero and whose size field decodes to no
\* number ends the import as the end of the archive does: importData
\* reports "Import complete!" and no error, nothing of that entry or of a
\* later one is dispatched, and the entries before it are restored.
C23_BadSizeEndsImport ==
    wPc = "damaged" =>
        /\ iLog \in {"none", "complete"}
        /\ IsPrefix(Delivered, RestoredBefore(wEntries, FirstBad, opts))
        /\ iPc = "end" =>
              /\ iLog = "complete"
              /\ Delivered = RestoredBefore(wEntries, FirstBad, opts)

\* the second header's size was no number: the first entry was restored,
\* the import ended
C23_Witness ==
    /\ wPc = "damaged" /\ iPc = "end" /\ Len(wEntries) = 2
    /\ FirstBad = 2 /\ Len(iDispatched) = 1 /\ wEntries[2].size > 0

---------------------------------------------------------------------------
(* The cipher: deriveKey, AES-GCM, EncryptionTransformer, DecryptionSource *)

\* 4 * 1024 * 1024 in the source; the model scales the chunk size down,
\* the code depends on it only through ">= CHUNK_SIZE" and the slicing
CHUNK_SIZE == 4
\* the longest plaintext of the model is 2 * CHUNK_SIZE + PlainExtra bytes
PlainExtra == 1

SIG      == <<76, 69, 95, 69, 78, 67>>      \* "LE_ENC"
SIG_LEN  == 6
SALT_LEN == 16
IV_LEN   == 12
LEN_LEN  == 4
TAG_LEN  == 16                              \* AES-GCM, 128-bit tag

\* deriveKey(password, salt): PBKDF2 taken as collision-free, the key is
\* determined by, and determines, the pair
DeriveKey(password, salt) == [password |-> password, salt |-> salt]

\* the AES-GCM key stream byte for position i under (key, iv) is
\* (KeyBase(key, iv) + i) % 256
KeyBase(key, iv) ==
    SumBytes(key.password, 1, Len(key.password))
        + SumBytes(key.salt, 1, Len(key.salt))
        + SumBytes(iv, 1, Len(iv))

\* the j-th byte of the authentication tag over (key, iv, body); the tag
\* is taken as unforgeable, so it is kept symbolic
TagByte(key, iv, body, j) == [mac |-> <<key, iv, body>>, j |-> j, ok |-> TRUE]

\* crypto.subtle.encrypt({name: "AES-GCM", iv}, key, data)
AesGcmEncrypt(key, iv, data) ==
    LET base == KeyBase(key, iv)
        body == [i \in 1..Len(data) |-> (data[i] + base + i) % 256]
    IN  body \o [j \in 1..TAG_LEN |-> TagByte(key, iv, body, j)]

\* a decryption that does not verify the tag
AesGcmDecrypt_NoTagCheck(key, iv, cipher) ==
    LET body == Slice(cipher, 0, Len(cipher) - TAG_LEN)
        base == KeyBase(key, iv)
    IN  [ok |-> TRUE,
         plain |-> [i \in 1..Len(body) |-> (body[i] + 65536 - base - i) % 256]]

\* crypto.subtle.decrypt({name: "AES-GCM", iv}, key, cipher): the tag is
\* verified first; ok = FALSE stands for the rejection of the promise
AesGcmDecrypt(key, iv, cipher) ==
    IF Len(cipher) < TAG_LEN THEN [ok |-> FALSE, plain |-> <<>>]
    ELSE LET body == Slice(cipher, 0, Len(cipher) - TAG_LEN)
             tag  == SliceFrom(cipher, Len(cipher) - TAG_LEN)
             base == KeyBase(key, iv)
         IN  IF \A j \in 1..TAG_LEN : tag[j] = TagByte(key, iv, body, j)
             THEN [ok |-> TRUE,
                   plain |-> [i \in 1..Len(body) |->
                                 (body[i] + 65536 - base - i) % 256]]
             ELSE [ok |-> FALSE, plain |-> <<>>]

\* lenParams.setUint32(0, n, true): 4 bytes, little-endian
U32LE(n) == <<n % 256, (n \div 256) % 256, (n \div 65536) % 256,
              (n \div 16777216) % 256>>

\* new DataView(bytes.buffer).getUint32(0, true)
GetU32LE(b) == b[1] + 256 * b[2] + 65536 * b[3] + 16777216 * b[4]

\* crypto.getRandomValues(new Uint8Array(12)): the k-th value drawn; a
\* tape is "distinct" (no value repeats) or "repeating"
RandomIv(tape, k) ==
    Zeros(IV_LEN - 1) \o <<IF tape = "distinct" THEN k ELSE 7>>

\* the concatenation of a sequence of chunks
RECURSIVE Flatten(_)
Flatten(chunks) ==
    IF chunks = <<>> THEN <<>>
    ELSE Flatten(SubSeq(chunks, 1, Len(chunks) - 1)) \o chunks[Len(chunks)]

\* an encryptAndPush that takes the nonce of the verification chunk again
EncryptAndPush_FirstIv(e, data, key, tape) ==
    LET iv == RandomIv(tape, 1)
        ciphertext == AesGcmEncrypt(key, iv, data)
    IN  [e EXCEPT !.drawn = e.drawn + 1,
                  !.out = e.out \o <<iv, U32LE(Len(ciphertext)), ciphertext>>]

\* encryptAndPush(data, controller, key): e is [buf, out, drawn]
EncryptAndPush(e, data, key, tape) ==
    LET iv == RandomIv(tape, e.drawn + 1)
        ciphertext == AesGcmEncrypt(key, iv, data)
    IN  [e EXCEPT !.drawn = e.drawn + 1,
                  !.out = e.out \o <<iv, U32LE(Len(ciphertext)), ciphertext>>]

\* the while loop of transform (lines 192-196)
RECURSIVE EncDrain(_, _, _)
EncDrain(e, key, tape) ==
    IF Len(e.buf) >= CHUNK_SIZE
    THEN EncDrain(EncryptAndPush([e EXCEPT !.buf = SliceFrom(e.buf, CHUNK_SIZE)],
                                 Slice(e.buf, 0, CHUNK_SIZE), key, tape),
                  key, tape)
    ELSE e

\* transform(chunk, controller)
EncTransformOp(e, chunk, key, tape) ==
    EncDrain([e EXCEPT !.buf = e.buf \o chunk], key, tape)

\* a flush that encrypts nothing
EncFlushOp_DropsResidual(e, key, tape) == e

\* flush(controller)
EncFlushOp(e, key, tape) ==
    IF Len(e.buf) > 0 THEN EncryptAndPush(e, e.buf, key, tape) ELSE e

\* start(controller)
EncStartOp(e, salt, key, tape) ==
    EncryptAndPush([e EXCEPT !.out = e.out \o <<SIG, salt>>], <<>>, key, tape)

Enc == [buf |-> eBuf, out |-> eOut, drawn |-> eDrawn]

SetEnc(e) == eBuf' = e.buf /\ eOut' = e.out /\ eDrawn' = e.drawn

PW_P     == <<112>>                         \* "p"
PW_WRONG == <<119, 114, 111, 110, 103>>     \* "wrong"
Passwords == {PW_P, PW_WRONG}

\* the plaintext of len bytes
PlainOf(len) == [i \in 1..len |-> (i * 5 + 1) % 256]

PlainLens == {0, CHUNK_SIZE - 1, CHUNK_SIZE, 2 * CHUNK_SIZE + PlainExtra}

EncInit ==
    /\ ePw \in Passwords
    /\ eSalt = [i \in 1..SALT_LEN |-> i]
    /\ ePlain \in {PlainOf(n) : n \in PlainLens}
    /\ eTape \in {"distinct", "repeating"}
    /\ eDrawn = 0 /\ eFed = 0 /\ eBuf = <<>> /\ eOut = <<>> /\ ePc = "new"

\* new TransformStream(new EncryptionTransformer(password, salt)): start
EncStart ==
    /\ ePc = "new"
    /\ SetEnc(EncStartOp(Enc, eSalt, DeriveKey(ePw, eSalt), eTape))
    /\ ePc' = "started"
    /\ UNCHANGED <<ePw, eSalt, ePlain, eTape, eFed>>
    /\ UNCHANGED <<hdrVars, wVars, iVars, cVars, dVars, gVars, xVars, vVars, rVars, uVars>>

\* the writable side receives the next n plaintext bytes: transform
EncTransform ==
    /\ ePc = "started" /\ eFed < Len(ePlain)
    /\ \E n \in 1..(Len(ePlain) - eFed) :
          /\ SetEnc(EncTransformOp(Enc, Slice(ePlain, eFed, eFed + n),
                                   DeriveKey(ePw, eSalt), eTape))
          /\ eFed' = eFed + n
    /\ UNCHANGED <<ePw, eSalt, ePlain, eTape, ePc>>
    /\ UNCHANGED <<hdrVars, wVars, iVars, cVars, dVars, gVars, xVars, vVars, rVars, uVars>>

\* the writable side is closed: flush
EncFlush ==
    /\ ePc = "started" /\ eFed = Len(ePlain)
    /\ SetEnc(EncFlushOp(Enc, DeriveKey(ePw, eSalt), eTape))
    /\ ePc' = "flushed"
    /\ UNCHANGED <<ePw, eSalt, ePlain, eTape, eFed>>
    /\ UNCHANGED <<hdrVars, wVars, iVars, cVars, dVars, gVars, xVars, vVars, rVars, uVars>>

---------------------------------------------------------------------------
(* The encrypted file on its way to DecryptionSource: intact, or altered.  *)
(* out is the writer's output: signature, salt, then three arrays (iv,     *)
(* length, ciphertext) per chunk; chunk 0 is the verification chunk.       *)

NChunks(out) == (Len(out) - 2) \div 3

ChunkAt(out, k) == SubSeq(out, 3 * k + 3, 3 * k + 5)

\* a byte of an iv or of a ciphertext altered: a ciphertext's last TAG_LEN
\* bytes are tag bytes
FlipAt(bytes, pos, isCipher) ==
    IF isCipher /\ pos > Len(bytes) - TAG_LEN
    THEN [bytes EXCEPT ![pos] = [@ EXCEPT !.ok = FALSE]]
    ELSE [bytes EXCEPT ![pos] = (@ + 1) % 256]

TamperModes(out) ==
    {[kind |-> k, at |-> c, pos |-> 0] :
        k \in {"drop", "dup"}, c \in 0..(NChunks(out) - 1)}
    \cup {[kind |-> "swap", at |-> c, pos |-> 0] : c \in 0..(NChunks(out) - 2)}
    \cup UNION {{[kind |-> "flipIv", at |-> c, pos |-> IV_LEN],
                 [kind |-> "flipCipher", at |-> c, pos |-> 1]} :
               c \in 0..(NChunks(out) - 1)}
    \cup {[kind |-> "flipSig", at |-> 0, pos |-> SIG_LEN]}

Tampered(out, m) ==
    LET before == SubSeq(out, 1, 3 * m.at + 2)
        after(k) == SubSeq(out, 3 * k + 3, Len(out))
    IN  IF m.kind = "drop" THEN before \o after(m.at + 1)
        ELSE IF m.kind = "dup" THEN before \o ChunkAt(out, m.at) \o after(m.at)
        ELSE IF m.kind = "swap"
        THEN before \o ChunkAt(out, m.at + 1) \o ChunkAt(out, m.at) \o after(m.at + 2)
        ELSE IF m.kind = "flipIv"
        THEN [out EXCEPT ![3 * m.at + 3] = FlipAt(@, m.pos, FALSE)]
        ELSE IF m.kind = "flipCipher"
        THEN [out EXCEPT ![3 * m.at + 5] = FlipAt(@, m.pos, TRUE)]
        ELSE IF m.kind = "flipSig"
        THEN [out EXCEPT ![1] = FlipAt(@, m.pos, FALSE)]
        ELSE out

\* the file is stored whole and later opened for decryption, with the
\* password of the export or with another one
Deliver ==
    /\ ePc = "flushed" /\ dPc = "off"
    /\ cMode' = [kind |-> "intact", at |-> 0, pos |-> 0]
    /\ cFile' = Flatten(eOut)
    /\ \E pw \in Passwords : dPw' = pw
    /\ dPc' = "sig"
    /\ UNCHANGED <<cEnd, dOff, dBuf, dDone, dKey, dIv, dLen, dOut, dErr>>
    /\ UNCHANGED <<hdrVars, wVars, iVars, eVars, gVars, xVars, vVars, rVars, uVars>>

\* the stored file is altered, and opened with the password of the export
DeliverTampered ==
    /\ ePc = "flushed" /\ dPc = "off"
    /\ \E m \in TamperModes(eOut) :
          /\ cMode' = m
          /\ cFile' = Flatten(Tampered(eOut, m))
    /\ dPw' = ePw
    /\ dPc' = "sig"
    /\ UNCHANGED <<cEnd, dOff, dBuf, dDone, dKey, dIv, dLen, dOut, dErr>>
    /\ UNCHANGED <<hdrVars, wVars, iVars, eVars, gVars, xVars, vVars, rVars, uVars>>

---------------------------------------------------------------------------
(* DecryptionSource.readable(): the state is the record Dec                *)

Dec == [buf |-> dBuf, done |-> dDone, pc |-> dPc, key |-> dKey, iv |-> dIv,
        len |-> dLen, out |-> dOut, err |-> dErr]

SetDec(d) ==
    /\ dBuf' = d.buf /\ dDone' = d.done /\ dPc' = d.pc /\ dKey' = d.key
    /\ dIv' = d.iv /\ dLen' = d.len /\ dOut' = d.out /\ dErr' = d.err

\* throw new Error(msg) inside start, caught by line 279: controller.error
DecError(d, msg) == [d EXCEPT !.pc = "errored", !.err = msg]

\* the number of bytes ensure is waiting for (lines 255, 262, 265)
DecNeed(d) ==
    IF d.pc = "sig" THEN SIG_LEN + SALT_LEN
    ELSE IF d.pc = "head" THEN IV_LEN + LEN_LEN
    ELSE d.len

\* one reader.read() result inside ensure (lines 234-241)
OnDecRead(d, res) ==
    IF res.done THEN [d EXCEPT !.done = TRUE]
    ELSE [d EXCEPT !.buf = d.buf \o res.value]

\* from the return of ensure(22) to the key (lines 255-259)
OnDecSig(d, password) ==
    IF Len(d.buf) < SIG_LEN + SALT_LEN THEN DecError(d, "File too small")
    ELSE IF Slice(d.buf, 0, SIG_LEN) # SIG
    THEN DecError([d EXCEPT !.buf = SliceFrom(d.buf, SIG_LEN)],
                  "Not an encrypted archive")
    ELSE [d EXCEPT !.buf = SliceFrom(d.buf, SIG_LEN + SALT_LEN),
                   !.key = DeriveKey(password,
                                     Slice(d.buf, SIG_LEN, SIG_LEN + SALT_LEN)),
                   !.pc = "head"]

\* from the return of ensure(16) to ensure(lenVal) (lines 262-264, 278)
OnDecHead(d) ==
    IF Len(d.buf) < IV_LEN + LEN_LEN THEN [d EXCEPT !.pc = "closed"]
    ELSE [d EXCEPT !.iv = Slice(d.buf, 0, IV_LEN),
                   !.len = GetU32LE(Slice(d.buf, IV_LEN, IV_LEN + LEN_LEN)),
                   !.buf = SliceFrom(d.buf, IV_LEN + LEN_LEN),
                   !.pc = "body"]

\* a chunk loop without the check of line 265: the short ciphertext goes
\* to decrypt, which rejects it
OnDecBody_NoLengthCheck(d) ==
    LET r == AesGcmDecrypt(d.key, d.iv, Slice(d.buf, 0, d.len))
        d1 == [d EXCEPT !.buf = SliceFrom(d.buf, d.len)]
    IN  IF r.ok /\ Len(d.buf) >= d.len
        THEN [d1 EXCEPT !.out = Append(d.out, r.plain), !.pc = "head"]
        ELSE DecError(d1, "Incorrect Password")

\* from the return of ensure(lenVal) to the next ensure(16)
\* (lines 265-276)
OnDecBody(d) ==
    IF Len(d.buf) < d.len THEN DecError(d, "Corrupt chunk")
    ELSE LET r == AesGcmDecrypt(d.key, d.iv, Slice(d.buf, 0, d.len))
             d1 == [d EXCEPT !.buf = SliceFrom(d.buf, d.len)]
         IN  IF r.ok THEN [d1 EXCEPT !.out = Append(d.out, r.plain), !.pc = "head"]
             ELSE DecError(d1, "Incorrect Password")

\* sizes of the chunks the encrypted file's stream hands out: a short
\* file is cut finely, an archive is read in pieces or in one chunk
CipherReads == IF cMode.kind = "whole" THEN {1000, 65536} ELSE {1, 64}

\* a reader.read() inside ensure returns the next chunk of the file
DecRead ==
    /\ dPc \in {"sig", "head", "body"} /\ Len(dBuf) < DecNeed(Dec) /\ ~dDone
    /\ dOff < Len(cFile)
    /\ \E n \in CipherReads :
          LET value == Slice(cFile, dOff, dOff + n)
          IN  /\ SetDec(OnDecRead(Dec, [done |-> FALSE, value |-> value]))
              /\ dOff' = dOff + Len(value)
    /\ UNCHANGED <<dPw, cVars>>
    /\ UNCHANGED <<hdrVars, wVars, iVars, eVars, gVars, xVars, vVars, rVars, uVars>>

\* a reader.read() inside ensure reports the end of the source: at the end
\* of the file, or earlier when the (otherwise intact) file was cut there
DecReadEnd ==
    /\ dPc \in {"sig", "head", "body"} /\ Len(dBuf) < DecNeed(Dec) /\ ~dDone
    /\ dOff >= Len(cFile) \/ cMode.kind = "intact"
    /\ SetDec(OnDecRead(Dec, [done |-> TRUE, value |-> <<>>]))
    /\ cEnd' = dOff
    /\ UNCHANGED <<dPw, dOff, cFile, cMode>>
    /\ UNCHANGED <<hdrVars, wVars, iVars, eVars, gVars, xVars, vVars, rVars, uVars>>

\* ensure(22) has returned
DecSig ==
    /\ dPc = "sig" /\ (Len(dBuf) >= DecNeed(Dec) \/ dDone)
    /\ SetDec(OnDecSig(Dec, dPw))
    /\ UNCHANGED <<dPw, dOff, cVars>>
    /\ UNCHANGED <<hdrVars, wVars, iVars, eVars, gVars, xVars, vVars, rVars, uVars>>

\* ensure(16) has returned
DecHead ==
    /\ dPc = "head" /\ (Len(dBuf) >= DecNeed(Dec) \/ dDone)
    /\ SetDec(OnDecHead(Dec))
    /\ UNCHANGED <<dPw, dOff, cVars>>
    /\ UNCHANGED <<hdrVars, wVars, iVars, eVars, gVars, xVars, vVars, rVars, uVars>>

\* ensure(lenVal) has returned
DecBody ==
    /\ dPc = "body" /\ (Len(dBuf) >= DecNeed(Dec) \/ dDone)
    /\ SetDec(OnDecBody(Dec))
    /\ UNCHANGED <<dPw, dOff, cVars>>
    /\ UNCHANGED <<hdrVars, wVars, iVars, eVars, gVars, xVars, vVars, rVars, uVars>>

DecInit ==
    /\ cFile = <<>> /\ cMode = [kind |-> "none", at |-> 0, pos |-> 0] /\ cEnd = -1
    /\ dPw = <<>> /\ dOff = 0 /\ dBuf = <<>> /\ dDone = FALSE /\ dPc = "off"
    /\ dKey = <<>> /\ dIv = <<>> /\ dLen = 0 /\ dOut = <<>> /\ dErr = ""

SpecCipherInit ==
    /\ UtilOff
    /\ HdrOff /\ WriterOff /\ ImportOff /\ ChainOff /\ ExportOff
    /\ ValueOff /\ RunOff
    /\ opts = [opfs |-> TRUE, onCustomItem |-> TRUE]
    /\ EncInit /\ DecInit

SpecCipherNext ==
    \/ EncStart \/ EncTransform \/ EncFlush \/ Deliver \/ DeliverTampered
    \/ DecRead \/ DecReadEnd \/ DecSig \/ DecHead \/ DecBody

SpecCipher == SpecCipherInit /\ [][SpecCipherNext]_vars

---------------------------------------------------------------------------
(* Properties of the cipher protocol                                       *)

\* the file reached DecryptionSource as written and was read to its end
\* (or is still being read)
WholeFile == cMode.kind = "intact" /\ cEnd \in {-1, Len(cFile)}

\* the file is the written one cut short at cEnd
Truncated == cMode.kind = "intact" /\ cEnd # -1 /\ cEnd < Len(cFile)

\* the file is the written one with a nonce or a ciphertext altered, or
\* with a chunk removed, duplicated or exchanged with the next one
TamperedFile == cMode.kind \in {"drop", "dup", "swap", "flipIv", "flipCipher"}

\* DecryptionSource takes a step
DecStep == DecRead \/ DecReadEnd \/ DecSig \/ DecHead \/ DecBody

\* C2: for every password, plaintext, slicing of the plaintext into
\* transform() calls and slicing of the file into source chunks, what
\* DecryptionSource emits under the same password is, in order, a prefix
\* of the plaintext and never an error; DecryptionSource can go on until
\* it closes its stream, and what it has emitted then is the whole
\* plaintext.
C2_CipherRoundTrip ==
    (WholeFile /\ dPw = ePw /\ dPc # "off") =>
        /\ dPc # "errored" /\ dErr = ""
        /\ IsPrefix(Flatten(dOut), ePlain)
        /\ dPc = "closed" => Flatten(dOut) = ePlain
        /\ dPc # "closed" => ENABLED DecStep

\* a plaintext of several chunks and a residual went through and the
\* stream closed
C2_Witness ==
    /\ WholeFile /\ dPw = ePw /\ dPc = "closed"
    /\ Len(ePlain) > 2 * CHUNK_SIZE /\ Flatten(dOut) = ePlain

\* C8: a file cut short at any offset before its end makes
\* DecryptionSource fail with an error; its stream is never closed
\* normally.
C8_TruncationIsError ==
    (Truncated /\ dPw = ePw) => dPc # "closed"

\* C9: any tampering (a nonce or a ciphertext altered, a whole chunk
\* removed, duplicated or moved) ends DecryptionSource with the "Incorrect
\* Password" error; its stream is never closed normally.
C9_TamperingDetected ==
    (TamperedFile /\ dPc \in {"closed", "errored"}) =>
        (dPc = "errored" /\ dErr = "Incorrect Password")

\* DecryptionSource's ensure and consume (lines 232-249) conserve the
\* file's bytes: its buffer holds the file's bytes between what was
\* consumed and what was read, in file order
DecBufferIsSourceWindow ==
    dPc # "off" =>
        /\ dOff - Len(dBuf) >= 0
        /\ dBuf = Slice(cFile, dOff - Len(dBuf), dOff)

\* the bytes the source hands to DecryptionSource before it ends
Available == IF cEnd = -1 THEN cFile ELSE Slice(cFile, 0, cEnd)

\* 0-based offset in the file f of chunk k (chunk 0 follows the salt),
\* going by the lengths the chunks declare
RECURSIVE ChunkOffset(_, _)
ChunkOffset(f, k) ==
    IF k = 0 THEN SIG_LEN + SALT_LEN
    ELSE LET at == ChunkOffset(f, k - 1)
         IN  at + IV_LEN + LEN_LEN
                + GetU32LE(Slice(f, at + IV_LEN, at + IV_LEN + LEN_LEN))

\* C24: every error of DecryptionSource names its cause. "File too small":
\* fewer than 22 bytes were available. "Not an encrypted archive": 22
\* bytes were available and the first 6 are not the signature. "Corrupt
\* chunk": the chunk after the ones emitted has its nonce and length, and
\* fewer ciphertext bytes than the length says. "Incorrect Password": that
\* chunk is complete and fails authentication. A source of fewer than 22
\* bytes, or of a wrong signature, ends in its error and in nothing else.
\* Nothing of the failing chunk is emitted, and once the stream is errored
\* it stays errored and nothing more is emitted.
ErrorHasItsCause ==
    LET f      == Available
        at     == ChunkOffset(f, Len(dOut))
        len    == GetU32LE(Slice(f, at + IV_LEN, at + IV_LEN + LEN_LEN))
        key    == DeriveKey(dPw, Slice(f, SIG_LEN, SIG_LEN + SALT_LEN))
        cipher == Slice(f, at + IV_LEN + LEN_LEN, at + IV_LEN + LEN_LEN + len)
        small  == Len(f) < SIG_LEN + SALT_LEN
        nosig  == ~small /\ Slice(f, 0, SIG_LEN) # SIG
    IN  /\ dPc = "errored" =>
               /\ dErr \in {"File too small", "Not an encrypted archive",
                             "Corrupt chunk", "Incorrect Password"}
               /\ dErr = "File too small" <=> small
               /\ dErr = "Not an encrypted archive" <=> nosig
               /\ dErr = "Corrupt chunk" =>
                     /\ Len(f) >= at + IV_LEN + LEN_LEN
                     /\ Len(cipher) < len
               /\ dErr = "Incorrect Password" =>
                     /\ Len(cipher) = len
                     /\ ~AesGcmDecrypt(key, Slice(f, at, at + IV_LEN), cipher).ok
        /\ dPc = "closed" => ~small /\ ~nosig

C25_NoncePerChunk ==
    Len(eOut) >= 2 =>
        /\ eDrawn = NChunks(eOut)
        /\ \A k \in 0..(NChunks(eOut) - 1) :
              ChunkAt(eOut, k)[1] = RandomIv(eTape, k + 1)
        /\ eTape = "distinct" =>
              \A j, k \in 0..(NChunks(eOut) - 1) :
                  j # k => ChunkAt(eOut, j)[1] # ChunkAt(eOut, k)[1]

\* a verification chunk, a whole chunk and a residual chunk were emitted
C25_Witness ==
    /\ Len(eOut) >= 2 /\ NChunks(eOut) >= 3 /\ eTape = "distinct"
    /\ Len(ChunkAt(eOut, NChunks(eOut) - 1)[3]) < CHUNK_SIZE + TAG_LEN

\* what is left of the plaintext after its whole chunks
Residual == SliceFrom(ePlain, (Len(ePlain) \div CHUNK_SIZE) * CHUNK_SIZE)

\* C16: when the writer was finalized, the last chunk of its output is the
\* final chunk, which encrypts the residual buffer, also when the residual
\* is zero bytes long: the output holds the verification chunk, one chunk
\* per whole CHUNK_SIZE of plaintext and the final chunk.
C16_FlushEmitsFinalChunk ==
    ePc = "flushed" =>
        LET n    == NChunks(eOut)
            last == ChunkAt(eOut, n - 1)
        IN  /\ n = 1 + (Len(ePlain) \div CHUNK_SIZE) + 1
            /\ AesGcmDecrypt(DeriveKey(ePw, eSalt), last[1], last[3]).plain = Residual

---------------------------------------------------------------------------
(* gzip, as CompressionStream("gzip") writes it and DecompressionStream    *)
(* ("gzip") reads it: the 10-byte member header, the deflate data, the     *)
(* CRC-32 and ISIZE trailer. The deflate data of the model is one final    *)
(* stored block (archives of the model are shorter than 65536 bytes), and  *)
(* the CRC-32 is taken as the byte sum.                                    *)

GZ_MAGIC   == <<31, 139>>                  \* 0x1f 0x8b (line 630)
GZ_HEADER  == GZ_MAGIC \o <<8, 0, 0, 0, 0, 0, 0, 3>>
GZ_HDR_LEN == 10
GZ_BLK_LEN == 5
GZ_TRL_LEN == 8

U16LE(n) == <<n % 256, (n \div 256) % 256>>

Crc(data) == U32LE(SumBytes(data, 1, Len(data)))

\* the bytes CompressionStream("gzip") produces for data
Gzip(data) ==
    GZ_HEADER \o <<1>> \o U16LE(Len(data)) \o U16LE(65535 - Len(data))
        \o data \o Crc(data) \o U32LE(Len(data))

\* DecompressionStream("gzip") after the bytes in: what it has decoded,
\* whether the member is complete, whether the input is not gzip
Gunzip(in) ==
    LET n    == Len(in)
        hdr  == Slice(in, 0, GZ_HDR_LEN)
        blk  == Slice(in, GZ_HDR_LEN, GZ_HDR_LEN + GZ_BLK_LEN)
        len  == IF Len(blk) = GZ_BLK_LEN THEN blk[2] + 256 * blk[3] ELSE 0
        from == GZ_HDR_LEN + GZ_BLK_LEN
        out  == IF Len(blk) = GZ_BLK_LEN THEN Slice(in, from, from + len) ELSE <<>>
        trl  == Slice(in, from + len, from + len + GZ_TRL_LEN)
        badHdr == hdr # SubSeq(GZ_HEADER, 1, Len(hdr))
        badBlk == /\ Len(blk) = GZ_BLK_LEN
                  /\ \/ blk[1] # 1
                     \/ blk[4] + 256 * blk[5] # 65535 - len
        badTrl == /\ Len(blk) = GZ_BLK_LEN /\ Len(trl) = GZ_TRL_LEN
                  /\ \/ trl # Crc(out) \o U32LE(len)
                     \/ n > from + len + GZ_TRL_LEN
    IN  [out |-> out,
         complete |-> Len(blk) = GZ_BLK_LEN /\ Len(trl) = GZ_TRL_LEN,
         bad |-> badHdr \/ badBlk \/ badTrl]

---------------------------------------------------------------------------
(* exportData with a password, as far as the bytes of the file go: the     *)
(* container is compressed and the result encrypted (lines 333-346).       *)

\* the whole output of the EncryptionTransformer for a plaintext shorter
\* than the source's CHUNK_SIZE of 4 MiB: start, transform calls that only
\* buffer (the loop of line 192 is not entered), flush
EncryptWhole(plain, password, salt, tape) ==
    LET key == DeriveKey(password, salt)
        e0  == EncStartOp([buf |-> <<>>, out |-> <<>>, drawn |-> 0], salt, key, tape)
    IN  EncFlushOp([e0 EXCEPT !.buf = plain], key, tape)

\* the archive the writer closed is exported under a password
ExportEncrypted ==
    /\ wPc = "closed" /\ ePc = "off" /\ iPc = "off"
    /\ \E pw \in Passwords :
          LET salt == [i \in 1..SALT_LEN |-> i]
              e == EncryptWhole(Gzip(wSink), pw, salt, "distinct")
          IN  /\ ePw' = pw /\ eSalt' = salt /\ eTape' = "distinct"
              /\ ePlain' = Gzip(wSink) /\ eFed' = Len(Gzip(wSink))
              /\ SetEnc(e)
              /\ cFile' = Flatten(e.out)
    /\ ePc' = "flushed"
    /\ cMode' = [kind |-> "whole", at |-> 0, pos |-> 0]
    /\ UNCHANGED cEnd
    /\ UNCHANGED <<hdrVars, wVars, iVars, dVars, gVars, xVars, vVars, rVars, uVars>>

---------------------------------------------------------------------------
(* importData on an encrypted file: DecryptionSource, piped through        *)
(* DecompressionStream("gzip"), read by the header loop (lines 619-642).   *)

\* a probe that compares one byte less of the signature
Sniff_FiveBytes(file) ==
    LET probe == Slice(file, 0, 8)
    IN  IF Slice(probe, 0, SIG_LEN - 1) = Slice(SIG, 0, SIG_LEN - 1) THEN "encrypted"
        ELSE IF Len(probe) >= 2 /\ SubSeq(probe, 1, 2) = GZ_MAGIC THEN "gzip"
        ELSE "plain"

\* the chain importData builds for a file (lines 619-638)
Sniff(file) ==
    LET probe == Slice(file, 0, 8)
    IN  IF Slice(probe, 0, SIG_LEN) = SIG THEN "encrypted"
        ELSE IF Len(probe) >= 2 /\ SubSeq(probe, 1, 2) = GZ_MAGIC THEN "gzip"
        ELSE "plain"

\* importData(file) on the encrypted file, up to the header loop: the
\* password is what prompt() returns
ImportStartEncrypted ==
    /\ cMode.kind = "whole" /\ iPc = "off" /\ dPc = "off"
    /\ Sniff(cFile) = "encrypted"
    /\ \E pw \in Passwords : dPw' = pw
    /\ dPc' = "sig" /\ gPc' = "open" /\ iPc' = "header"
    /\ UNCHANGED <<opts, iCut, iOff, iBuf, iDone, iName, iSize, iRemaining,
                   iFileW, iDispatched, iLog>>
    /\ UNCHANGED <<dOff, dBuf, dDone, dKey, dIv, dLen, dOut, dErr>>
    /\ UNCHANGED <<gIn, gTaken, gOut, gErr>>
    /\ UNCHANGED <<hdrVars, wVars, eVars, cVars, xVars, vVars, rVars, uVars>>

\* data cut into pieces of at most n bytes
RECURSIVE Pieces(_, _)
Pieces(data, n) ==
    IF Len(data) = 0 THEN <<>>
    ELSE <<Slice(data, 0, n)>> \o Pieces(SliceFrom(data, n), n)

\* the most bytes the DecompressionStream enqueues as one chunk
GunzipPieces == {700, 65536}

\* pipeThrough (line 629): the next chunk DecryptionSource enqueued is
\* written to the DecompressionStream, which decodes what it can
PipeWrite ==
    /\ gPc = "open" /\ dPc # "errored" /\ gTaken < Len(dOut)
    /\ LET in     == gIn \o dOut[gTaken + 1]
           before == Gunzip(gIn)
           after  == Gunzip(in)
           fresh  == SliceFrom(after.out, Len(before.out))
       IN  /\ gIn' = in
           /\ IF after.bad
              THEN gPc' = "errored" /\ gErr' = "TypeError" /\ gOut' = <<>>
              ELSE /\ UNCHANGED <<gPc, gErr>>
                   /\ \E n \in GunzipPieces : gOut' = gOut \o Pieces(fresh, n)
    /\ gTaken' = gTaken + 1
    /\ UNCHANGED <<hdrVars, wVars, iVars, eVars, cVars, dVars, xVars, vVars, rVars, uVars>>

\* pipeThrough: DecryptionSource closed its stream and every chunk was
\* passed on; the DecompressionStream is closed and checks its input ended
\* where the gzip member ends
PipeClose ==
    /\ gPc = "open" /\ dPc = "closed" /\ gTaken = Len(dOut)
    /\ IF Gunzip(gIn).complete
       THEN gPc' = "closed" /\ UNCHANGED <<gErr, gOut>>
       ELSE gPc' = "errored" /\ gErr' = "TypeError" /\ gOut' = <<>>
    /\ UNCHANGED <<gIn, gTaken>>
    /\ UNCHANGED <<hdrVars, wVars, iVars, eVars, cVars, dVars, xVars, vVars, rVars, uVars>>

\* pipeThrough: DecryptionSource errored its stream; the chunks still
\* queued are dropped and the DecompressionStream is aborted with the error
PipeAbort ==
    /\ gPc = "open" /\ dPc = "errored"
    /\ gPc' = "errored" /\ gErr' = dErr /\ gOut' = <<>>
    /\ UNCHANGED <<gIn, gTaken>>
    /\ UNCHANGED <<hdrVars, wVars, iVars, eVars, cVars, dVars, xVars, vVars, rVars, uVars>>

\* the archives exported under a password
ChainArchives ==
    { <<>>,
      <<EntryOf(PATH_CUSTOM, 1)>>,
      <<EntryOf(PATH_FILE, BLOCK + 1), EntryOf(PATH_CUSTOM, BLOCK)>> }

SpecImportInit ==
    /\ UtilOff
    /\ HdrOff /\ CipherOff /\ ChainOff /\ ExportOff /\ ImportOff
    /\ ValueOff /\ RunOff
    /\ opts = [opfs |-> TRUE, onCustomItem |-> TRUE]
    /\ wEntries \in ChainArchives
    /\ wIdx = 0 /\ wPos = 0 /\ wSink = <<>> /\ wPc = "idle" /\ wOff = 0

SpecImportNext ==
    \/ WriteEntry \/ WriteStreamBegin \/ WriteStreamChunk \/ WriteStreamEnd
    \/ WriterClose
    \/ ExportEncrypted \/ ImportStartEncrypted
    \/ DecRead \/ DecReadEnd \/ DecSig \/ DecHead \/ DecBody
    \/ PipeWrite \/ PipeClose \/ PipeAbort
    \/ EnsureRead \/ HeaderStep \/ MemoryStep \/ MemoryStepThrows
    \/ StreamRead \/ StreamClose \/ SkipRead

SpecImport == SpecImportInit /\ [][SpecImportNext]_vars

---------------------------------------------------------------------------
(* Properties of the import of an encrypted archive                        *)

\* C3: importing with a password other than the one of the export ends
\* in the "Incorrect Password" error and in nothing else: DecryptionSource
\* emits no chunk and never closes its stream, and importData dispatches
\* no entry, never reports success, reports that error when it ends, and
\* can go on until it ends.
C3_WrongPasswordFailsFirst ==
    (cMode.kind = "whole" /\ dPc # "off" /\ dPw # ePw) =>
        /\ dOut = <<>> /\ dPc # "closed"
        /\ dPc = "errored" => dErr = "Incorrect Password"
        /\ iDispatched = <<>> /\ iFileW = <<>>
        /\ iPc = "end" => iLog = "Incorrect Password"
        /\ iPc # "end" => ENABLED (DecStep \/ PipeAbort \/ EnsureRead)

\* an archive of two entries was imported with the other password and the
\* import ended
C3_Witness ==
    /\ cMode.kind = "whole" /\ dPw # ePw /\ Len(wEntries) = 2
    /\ dPc = "errored" /\ iPc = "end" /\ iLog = "Incorrect Password"

\* the decrypted chunks DecryptionSource has enqueued and the pipe into the
\* DecompressionStream has not yet read
DecQueued == Len(dOut) - gTaken

\* a step of the pipe from DecryptionSource into the DecompressionStream
PipeStep == PipeWrite \/ PipeClose \/ PipeAbort

\* C14: once importData has reported a failure, no stage upstream of its
\* reader keeps running: DecryptionSource reads and decrypts no further
\* and the pipe into the DecompressionStream moves nothing.
C14_FailureStopsUpstream ==
    (cMode.kind = "whole" /\ iPc = "end" /\ iLog # "complete") =>
        ~ENABLED (DecStep \/ PipeStep)

\* C12: DecryptionSource does not run ahead of its consumer: the decrypted
\* chunks queued in its output never exceed the one chunk a stream of the
\* default high-water mark asks its source for.
C12_DecryptionWaitsForConsumer ==
    (cMode.kind = "whole" /\ dPc # "off") => DecQueued <= 1

---------------------------------------------------------------------------
(* The header probe of importData (lines 619-642) on any source: which     *)
(* chain is built for which first bytes, and what prompt() returns.        *)

\* the longest source the probe is tried on: the probe reads 8 bytes
ProbeLen == 9

\* sources whose first bytes are the signature, the gzip magic, the start
\* of a tar header, or one of these with one byte changed
ProbeBases ==
    LET enc == SIG \o <<1, 2, 3>>
        gz  == GZ_HEADER
        tar == STR_LS
    IN  {enc, gz, tar, <<139, 31, 8>>, GZ_MAGIC \o SIG}
        \cup { [enc EXCEPT ![i] = 0] : i \in 1..SIG_LEN }
        \cup { [gz EXCEPT ![i] = 76] : i \in 1..2 }

\* every source of at most ProbeLen bytes that starts like one of them
ProbeFiles == { Slice(b, 0, n) : b \in ProbeBases, n \in 0..ProbeLen }

\* what prompt("Enter Password:") returns; <<>> stands for null and ""
PromptAnswers == Passwords \cup {<<>>}

\* importData(file) up to the header loop (lines 608-642) on any file
ImportProbe ==
    /\ cMode.kind = "probe" /\ iPc = "off"
    /\ \E answer \in PromptAnswers :
          LET kind == Sniff(cFile)
          IN  IF kind = "encrypted"
              THEN IF answer = <<>>
                   THEN /\ SetImp(ImportError(Imp, "Password required"))
                        /\ UNCHANGED <<dPw, dPc, gPc>>
                   ELSE /\ SetImp([Imp EXCEPT !.pc = "header"])
                        /\ dPw' = answer /\ dPc' = "sig" /\ gPc' = "open"
              ELSE /\ SetImp([Imp EXCEPT !.pc = "header"])
                   /\ gPc' = IF kind = "gzip" THEN "open" ELSE gPc
                   /\ UNCHANGED <<dPw, dPc>>
    /\ UNCHANGED <<opts, iCut, iOff>>
    /\ UNCHANGED <<dOff, dBuf, dDone, dKey, dIv, dLen, dOut, dErr>>
    /\ UNCHANGED <<gIn, gTaken, gOut, gErr>>
    /\ UNCHANGED <<hdrVars, wVars, eVars, cVars, xVars, vVars, rVars, uVars>>

SpecProbeInit ==
    /\ UtilOff
    /\ HdrOff /\ WriterOff /\ ImportOff /\ ChainOff /\ ExportOff
    /\ ValueOff /\ RunOff
    /\ opts = [opfs |-> TRUE, onCustomItem |-> TRUE]
    /\ ePw = <<>> /\ eSalt = <<>> /\ ePlain = <<>> /\ eTape = <<>> /\ eDrawn = 0
    /\ eFed = 0 /\ eBuf = <<>> /\ eOut = <<>> /\ ePc = "off"
    /\ cFile \in ProbeFiles
    /\ cMode = [kind |-> "probe", at |-> 0, pos |-> 0] /\ cEnd = -1
    /\ dPw = <<>> /\ dOff = 0 /\ dBuf = <<>> /\ dDone = FALSE /\ dPc = "off"
    /\ dKey = <<>> /\ dIv = <<>> /\ dLen = 0 /\ dOut = <<>> /\ dErr = ""

SpecProbeNext == ImportProbe

SpecProbe == SpecProbeInit /\ [][SpecProbeNext]_vars

\* the chain that stands when importData reaches its header loop
BuiltChain ==
    IF iPc # "header" THEN "none"
    ELSE IF dPc # "off" /\ gPc # "off" THEN "decrypt, decompress"
    ELSE IF dPc = "off" /\ gPc # "off" THEN "decompress"
    ELSE IF dPc = "off" /\ gPc = "off" THEN "plain"
    ELSE "other"

\* the chain the fixed order of tests asks for
ExpectedChain ==
    IF Len(cFile) >= SIG_LEN /\ (\A i \in 1..SIG_LEN : cFile[i] = SIG[i])
    THEN "decrypt, decompress"
    ELSE IF Len(cFile) >= 2 /\ cFile[1] = GZ_MAGIC[1] /\ cFile[2] = GZ_MAGIC[2]
    THEN "decompress"
    ELSE "plain"

\* the probe has run
Probed == cMode.kind = "probe" /\ iPc # "off"

\* C15 as stated: for every source, also one shorter than 6 bytes, exactly
\* one chain is built, the one the fixed order of tests gives.
C15_ExactlyOneChain == Probed => BuiltChain = ExpectedChain

\* C15, amended: for every source the chain is the one the fixed order of
\* tests gives (signature, then gzip magic, then plain), unless the source
\* carries the signature and prompt() returned nothing: then no chain is
\* built and importData reports "Password required".
C15_OneChainGivenPassword ==
    Probed =>
        IF ExpectedChain = "decrypt, decompress" /\ dPw = <<>>
        THEN BuiltChain = "none" /\ iPc = "end" /\ iLog = "Password required"
        ELSE BuiltChain = ExpectedChain /\ iLog = "none"

\* a source of the first five bytes of the signature was probed
C15_Witness ==
    /\ Probed /\ Len(cFile) = SIG_LEN - 1 /\ cFile = Slice(SIG, 0, SIG_LEN - 1)
    /\ BuiltChain = "plain"

---------------------------------------------------------------------------
(* exportData: the chain gzip -> (cipher) -> sink and the function's own   *)
(* awaits (lines 305-346, 588-605). The chain carries chunk tokens: the    *)
(* k-th write of the codec is [t |-> "tar", data |-> <<k>>]; what matters  *)
(* here is which chunk is where, and the state of every stream. A stage is *)
(* a stream with a writable side (w, pend: the writes accepted and not yet *)
(* finished, locked) and, for a TransformStream, a readable side (q: the   *)
(* chunks enqueued and not yet read).                                      *)

\* writes of the collaborators before tar.close()
XWrites == 2

\* CHUNK_SIZE, counted in gzip chunks
XCHUNK == 2

Token(t, data) == [t |-> t, data |-> data]

NewStage(kind, locked) ==
    [kind |-> kind, w |-> "writable", pend |-> <<>>, buf |-> <<>>,
     started |-> kind # "enc", q |-> <<>>, locked |-> locked, got |-> <<>>]

\* targetStream when the catch of line 599 runs: the stream after gzip
TargetIdx == 2

\* the chain of lines 319-346: gzip.writable is locked by the TarWriter's
\* getWriter (line 136), every other writable side by the pipeTo into it
BuildChain(password) ==
    IF password
    THEN <<NewStage("gzip", TRUE), NewStage("enc", TRUE), NewStage("sink", TRUE)>>
    ELSE <<NewStage("gzip", TRUE), NewStage("sink", TRUE)>>

\* an encryptAndPush that enqueues the length after the ciphertext
XEncryptAndPush_LengthLast(data) ==
    <<Token("iv", <<>>), Token("ct", data), Token("len", <<Len(data)>>)>>

\* encryptAndPush on tokens: the three enqueues of lines 215-217
XEncryptAndPush(data) ==
    <<Token("iv", <<>>), Token("len", <<Len(data)>>), Token("ct", data)>>

\* the cipher stage's loop of lines 192-196 on tokens: [buf, out]
RECURSIVE XEncDrain(_)
XEncDrain(e) ==
    IF Len(e.buf) >= XCHUNK
    THEN XEncDrain([buf |-> SubSeq(e.buf, XCHUNK + 1, Len(e.buf)),
                    out |-> e.out \o XEncryptAndPush(SubSeq(e.buf, 1, XCHUNK))])
    ELSE e

\* transform(chunk) of a stage: [buf, out]
TransformOut(st, chunk) ==
    IF st.kind = "gzip" THEN [buf |-> st.buf, out |-> <<Token("gz", chunk.data)>>]
    ELSE XEncDrain([buf |-> st.buf \o chunk.data, out |-> <<>>])

\* flush() of a stage: the gzip trailer; the cipher's residual, if any
FlushOut(st) ==
    IF st.kind = "gzip" THEN <<Token("gz", <<0>>)>>
    ELSE IF Len(st.buf) > 0 THEN XEncryptAndPush(st.buf)
    ELSE <<>>

\* start() of the cipher stage (lines 176-185)
StartOut == <<Token("sig", <<>>), Token("salt", <<>>)>> \o XEncryptAndPush(<<>>)

\* a writable side that signals no backpressure while a write is unfinished
StageReady_IgnoresPending(stages, i) == stages[i].w = "writable"

\* the writable side of stage i can take a chunk from the pipe into it
StageReady(stages, i) == stages[i].w = "writable" /\ stages[i].pend = <<>>

\* WritableStream.abort(reason) on stage i: rejected when the stream is
\* locked; otherwise the stream and, through the pipes, every stream after
\* it end errored
WritableAbort(stages, i) ==
    IF stages[i].locked THEN stages
    ELSE [j \in DOMAIN stages |->
            IF j >= i THEN [stages[j] EXCEPT !.w = "errored", !.pend = <<>>,
                                             !.q = <<>>]
            ELSE stages[j]]

Sink == xStages[Len(xStages)]

ExportInit ==
    /\ xPw \in BOOLEAN /\ xBlob \in BOOLEAN /\ xFail \in 0..(XWrites + 1)
    /\ xPc = "new" /\ xNext = 0 /\ xAck = FALSE /\ xLog = "none"
    /\ xClicked = FALSE /\ downloadUrl = FALSE /\ xStages = <<>>

\* exportData up to the try block (lines 305-346)
XBuild ==
    /\ xPc = "new"
    /\ xStages' = BuildChain(xPw)
    /\ xPc' = "loop" /\ xNext' = 1
    /\ UNCHANGED <<xPw, xBlob, xFail, xAck, xLog, xClicked, downloadUrl>>
    /\ UNCHANGED <<hdrVars, wVars, iVars, eVars, cVars, dVars, gVars, vVars, rVars, uVars>>

\* TarWriter.write: this.writer.write(chunk) on gzip.writable (line 156);
\* write XWrites + 1 is the end-of-archive write of tar.close() (line 165)
XWrite ==
    /\ xPc = "loop" /\ xNext <= XWrites + 1 /\ xFail # xNext
    /\ xStages' = [xStages EXCEPT ![1].pend = Append(@, Token("tar", <<xNext>>))]
    /\ xPc' = "writeWait" /\ xAck' = FALSE
    /\ UNCHANGED <<xPw, xBlob, xFail, xNext, xLog, xClicked, downloadUrl>>
    /\ UNCHANGED <<hdrVars, wVars, iVars, eVars, cVars, dVars, gVars, vVars, rVars, uVars>>

\* the awaited write has resolved
XWriteDone ==
    /\ xPc = "writeWait" /\ xAck
    /\ xPc' = "loop" /\ xNext' = xNext + 1 /\ xAck' = FALSE
    /\ UNCHANGED <<xPw, xBlob, xFail, xLog, xClicked, downloadUrl, xStages>>
    /\ UNCHANGED <<hdrVars, wVars, iVars, eVars, cVars, dVars, gVars, vVars, rVars, uVars>>

\* tar.close(): this.writer.close() (line 166)
XCloseWriter ==
    /\ xPc = "loop" /\ xNext = XWrites + 2
    /\ xStages' = [xStages EXCEPT ![1].w = "closing"]
    /\ xPc' = "closeWait" /\ xAck' = FALSE
    /\ UNCHANGED <<xPw, xBlob, xFail, xNext, xLog, xClicked, downloadUrl>>
    /\ UNCHANGED <<hdrVars, wVars, iVars, eVars, cVars, dVars, gVars, vVars, rVars, uVars>>

\* await tar.close() has resolved: lines 589-598
XComplete ==
    /\ xPc = "closeWait" /\ xAck
    /\ xClicked' = downloadUrl
    /\ xLog' = "complete" /\ xPc' = "done"
    /\ UNCHANGED <<xPw, xBlob, xFail, xNext, xAck, downloadUrl, xStages>>
    /\ UNCHANGED <<hdrVars, wVars, iVars, eVars, cVars, dVars, gVars, vVars, rVars, uVars>>

\* a collaborator throws inside the try block: the catch of lines 599-605
XCatch ==
    /\ xPc = "loop" /\ xFail = xNext
    /\ xLog' = "error"
    /\ xStages' = WritableAbort(xStages, TargetIdx)
    /\ xPc' = "done"
    /\ UNCHANGED <<xPw, xBlob, xFail, xNext, xAck, xClicked, downloadUrl>>
    /\ UNCHANGED <<hdrVars, wVars, iVars, eVars, cVars, dVars, gVars, vVars, rVars, uVars>>

\* the cipher stage's start()
StageStart ==
    /\ \E i \in DOMAIN xStages :
          /\ xStages[i].kind = "enc" /\ ~xStages[i].started
          /\ xStages' = [xStages EXCEPT ![i].started = TRUE,
                                        ![i].q = @ \o StartOut]
    /\ UNCHANGED <<xPw, xBlob, xFail, xPc, xNext, xAck, xLog, xClicked,
                   downloadUrl>>
    /\ UNCHANGED <<hdrVars, wVars, iVars, eVars, cVars, dVars, gVars, vVars, rVars, uVars>>

\* a TransformStream takes its oldest pending write: it waits until the
\* pipe out of it has a read pending, which the pipe issues when the next
\* stage is ready and nothing is queued; the write then resolves
StageTransform ==
    /\ \E i \in DOMAIN xStages :
          /\ xStages[i].kind \in {"gzip", "enc"} /\ xStages[i].started
          /\ xStages[i].w \in {"writable", "closing"}
          /\ xStages[i].pend # <<>> /\ xStages[i].q = <<>>
          /\ StageReady(xStages, i + 1)
          /\ LET r == TransformOut(xStages[i], Head(xStages[i].pend))
             IN  xStages' = [xStages EXCEPT ![i].pend = Tail(@),
                                            ![i].buf = r.buf, ![i].q = r.out]
          /\ xAck' = IF i = 1 THEN TRUE ELSE xAck
    /\ UNCHANGED <<xPw, xBlob, xFail, xPc, xNext, xLog, xClicked, downloadUrl>>
    /\ UNCHANGED <<hdrVars, wVars, iVars, eVars, cVars, dVars, gVars, vVars, rVars, uVars>>

\* a TransformStream whose writable side is being closed, every write
\* done: flush, the readable side closes once read empty, and the close
\* of the writable side resolves
StageFlush ==
    /\ \E i \in DOMAIN xStages :
          /\ xStages[i].kind \in {"gzip", "enc"} /\ xStages[i].started
          /\ xStages[i].w = "closing" /\ xStages[i].pend = <<>>
          /\ xStages' = [xStages EXCEPT ![i].w = "closed", ![i].buf = <<>>,
                                        ![i].q = @ \o FlushOut(xStages[i])]
          /\ xAck' = IF i = 1 THEN TRUE ELSE xAck
    /\ UNCHANGED <<xPw, xBlob, xFail, xPc, xNext, xLog, xClicked, downloadUrl>>
    /\ UNCHANGED <<hdrVars, wVars, iVars, eVars, cVars, dVars, gVars, vVars, rVars, uVars>>

\* pipeTo (lines 340, 345): the oldest queued chunk of a stage is written
\* to the next stage, once that one is ready
PipeMove ==
    /\ \E i \in DOMAIN xStages :
          /\ i < Len(xStages) /\ xStages[i].q # <<>>
          /\ StageReady(xStages, i + 1)
          /\ xStages' = [xStages EXCEPT ![i].q = Tail(@),
                                        ![i + 1].pend = <<Head(xStages[i].q)>>]
    /\ UNCHANGED <<xPw, xBlob, xFail, xPc, xNext, xAck, xLog, xClicked,
                   downloadUrl>>
    /\ UNCHANGED <<hdrVars, wVars, iVars, eVars, cVars, dVars, gVars, vVars, rVars, uVars>>

\* pipeTo: the readable side of a stage is closed and everything written
\* to the next stage is done; the next stage's writable side is closed
PipeShutdown ==
    /\ \E i \in DOMAIN xStages :
          /\ i < Len(xStages)
          /\ xStages[i].w = "closed" /\ xStages[i].q = <<>>
          /\ StageReady(xStages, i + 1)
          /\ xStages' = [xStages EXCEPT ![i + 1].w = "closing"]
    /\ UNCHANGED <<xPw, xBlob, xFail, xPc, xNext, xAck, xLog, xClicked,
                   downloadUrl>>
    /\ UNCHANGED <<hdrVars, wVars, iVars, eVars, cVars, dVars, gVars, vVars, rVars, uVars>>

\* the sink's write(c) (lines 322-324)
SinkWrite ==
    /\ xStages # <<>> /\ Sink.w \in {"writable", "closing"} /\ Sink.pend # <<>>
    /\ xStages' = [xStages EXCEPT ![Len(xStages)].pend = Tail(@),
                                  ![Len(xStages)].got = Append(@, Head(Sink.pend))]
    /\ UNCHANGED <<xPw, xBlob, xFail, xPc, xNext, xAck, xLog, xClicked,
                   downloadUrl>>
    /\ UNCHANGED <<hdrVars, wVars, iVars, eVars, cVars, dVars, gVars, vVars, rVars, uVars>>

\* the sink's close() (lines 325-329): the in-memory fallback sets
\* downloadUrl, the file picker's stream commits the file
SinkClose ==
    /\ xStages # <<>> /\ Sink.w = "closing" /\ Sink.pend = <<>>
    /\ xStages' = [xStages EXCEPT ![Len(xStages)].w = "closed"]
    /\ downloadUrl' = xBlob
    /\ UNCHANGED <<xPw, xBlob, xFail, xPc, xNext, xAck, xLog, xClicked>>
    /\ UNCHANGED <<hdrVars, wVars, iVars, eVars, cVars, dVars, gVars, vVars, rVars, uVars>>

SpecExportInit ==
    /\ UtilOff
    /\ HdrOff /\ WriterOff /\ ImportOff /\ CipherOff /\ ChainOff
    /\ ValueOff /\ RunOff
    /\ opts = [opfs |-> TRUE, onCustomItem |-> TRUE]
    /\ ExportInit

SpecExportNext ==
    \/ XBuild \/ XWrite \/ XWriteDone \/ XCloseWriter \/ XComplete \/ XCatch
    \/ StageStart \/ StageTransform \/ StageFlush
    \/ PipeMove \/ PipeShutdown \/ SinkWrite \/ SinkClose

SpecExport == SpecExportInit /\ [][SpecExportNext]_vars

---------------------------------------------------------------------------
(* Properties of the export pipeline                                       *)

\* what the chain delivers for the gzip chunks zs
RECURSIVE ThroughCipher(_, _)
ThroughCipher(zs, e) ==
    IF zs = <<>> THEN e.out \o (IF Len(e.buf) > 0 THEN XEncryptAndPush(e.buf) ELSE <<>>)
    ELSE LET r == XEncDrain([buf |-> e.buf \o Head(zs).data, out |-> <<>>])
         IN  ThroughCipher(Tail(zs), [buf |-> r.buf, out |-> e.out \o r.out])

\* the whole archive as it should lie in the sink
WholeArchive ==
    LET zs == [k \in 1..(XWrites + 1) |-> Token("gz", <<k>>)] \o <<Token("gz", <<0>>)>>
    IN  IF xPw THEN ThroughCipher(zs, [buf |-> <<>>, out |-> StartOut]) ELSE zs

\* C4: after a failure inside the try block, when exportData has left its
\* catch, the sink has been aborted.
C4_FailureAbortsSink ==
    (xPc = "done" /\ xLog = "error") => Sink.w = "errored"

\* C5: when exportData has logged "Export complete!", the sink holds the
\* whole archive and its close has completed; with the in-memory fallback
\* downloadUrl was set and the download triggered.
C5_CompleteMeansDelivered ==
    (xPc = "done" /\ xLog = "complete") =>
        /\ Sink.got = WholeArchive /\ Sink.w = "closed"
        /\ xBlob => (downloadUrl /\ xClicked)

RECURSIVE CipherData(_)
CipherData(toks) ==
    IF toks = <<>> THEN <<>>
    ELSE (IF Head(toks).t = "ct" THEN Head(toks).data ELSE <<>>)
         \o CipherData(Tail(toks))

\* the gzip chunks of the whole archive, as numbers: write k gives k, the
\* trailer gives 0
IssuedData == [k \in 1..(XWrites + 2) |-> IF k = XWrites + 2 THEN 0 ELSE k]

\* the kind of the i-th chunk of an encrypted output
FrameKind(i) ==
    IF i = 1 THEN "sig" ELSE IF i = 2 THEN "salt"
    ELSE <<"iv", "len", "ct">>[((i - 3) % 3) + 1]

\* C17: what has reached the sink is at any time the beginning of the
\* archive in the order it was issued. Encrypted, it starts with the
\* signature, the salt and the verification chunk; every chunk lies there
\* as nonce, length, ciphertext, the length being that of its ciphertext,
\* and the ciphertexts carry the data in the order it was written.
C17_SinkOrder ==
    xStages # <<>> =>
        LET got == Sink.got
        IN  /\ IsPrefix(got, WholeArchive)
            /\ xPw =>
                  /\ \A i \in DOMAIN got : got[i].t = FrameKind(i)
                  /\ \A i \in DOMAIN got :
                        got[i].t = "ct" => /\ got[i - 1].data = <<Len(got[i].data)>>
                                           /\ i = 5 => got[i].data = <<>>
                  /\ IsPrefix(CipherData(got), IssuedData)
            /\ ~xPw => \A i \in DOMAIN got :
                          got[i] = Token("gz", <<IssuedData[i]>>)

\* an encrypted archive has reached the sink whole
C17_Witness ==
    /\ xPw /\ xStages # <<>> /\ Sink.w = "closed" /\ Sink.got = WholeArchive
    /\ CipherData(Sink.got) = IssuedData

----------------------------------------------------------------------------
(* prepForCBOR and restoreFromCBOR on structured values                   *)

\* JavaScript values: every value is a record with its kind in t
Null      == [t |-> "null"]
Undefined == [t |-> "undefined"]
Bool(b)   == [t |-> "boolean", bool |-> b]
Num(n)    == [t |-> "number", num |-> n]
Str(s)    == [t |-> "string", str |-> s]
\* a typed array of class cls over bytes off .. off + len of buffer
View(cls, buffer, off, len) ==
    [t |-> "view", cls |-> cls, buffer |-> buffer, byteOffset |-> off,
     byteLength |-> len]
ArrayBuf(bytes) == [t |-> "arraybuffer", bytes |-> bytes]
\* late: blob.arrayBuffer() does not settle within the 2000 ms of line 51
Blob(type, bytes, late) ==
    [t |-> "blob", type |-> type, bytes |-> bytes, late |-> late]
Arr(items) == [t |-> "array", items |-> items]
\* fields: a sequence of [k, v], in key order
Obj(fields) == [t |-> "object", fields |-> fields]

\* item[key] of a plain object
Get(item, key) ==
    IF \E i \in DOMAIN item.fields : item.fields[i].k = key
    THEN item.fields[CHOOSE i \in DOMAIN item.fields : item.fields[i].k = key].v
    ELSE Undefined

\* !!v
Truthy(v) ==
    CASE v.t \in {"null", "undefined"} -> FALSE
      [] v.t = "boolean" -> v.bool
      [] v.t = "number" -> v.num # 0
      [] v.t = "string" -> v.str # <<>>
      [] OTHER -> TRUE

STR_NULL      == <<110, 117, 108, 108>>                          \* "null"
STR_UNDEFINED == <<117, 110, 100, 101, 102, 105, 110, 101, 100>> \* "undefined"
STR_TRUE      == <<116, 114, 117, 101>>                          \* "true"
STR_FALSE     == <<102, 97, 108, 115, 101>>                      \* "false"
\* "[object Object]"
STR_OBJECT    == <<91, 111, 98, 106, 101, 99, 116, 32, 79, 98, 106, 101, 99, 116, 93>>
\* "[object Blob]"
STR_BLOB      == <<91, 111, 98, 106, 101, 99, 116, 32, 66, 108, 111, 98, 93>>
\* "[object ArrayBuffer]"
STR_ABUF      == <<91, 111, 98, 106, 101, 99, 116, 32, 65, 114, 114, 97, 121, 66, 117, 102, 102, 101, 114, 93>>
CHAR_COMMA    == 44

\* String(n) of a non-negative integer
RECURSIVE Decimal(_)
Decimal(n) ==
    IF n < 10 THEN <<CHAR_ZERO + n>>
    ELSE Decimal(n \div 10) \o <<CHAR_ZERO + (n % 10)>>

\* String(v), as the Blob constructor applies it to a part that is no
\* buffer and to the type option
RECURSIVE ToText(_)
RECURSIVE JoinText(_, _)
JoinText(texts, k) ==
    IF k = 0 THEN <<>>
    ELSE IF k = 1 THEN texts[1]
    ELSE JoinText(texts, k - 1) \o <<CHAR_COMMA>> \o texts[k]

ToText(v) ==
    CASE v.t = "null" -> STR_NULL
      [] v.t = "undefined" -> STR_UNDEFINED
      [] v.t = "boolean" -> IF v.bool THEN STR_TRUE ELSE STR_FALSE
      [] v.t = "number" -> Decimal(v.num)
      [] v.t = "string" -> v.str
      [] v.t = "object" -> STR_OBJECT
      [] v.t = "blob" -> STR_BLOB
      [] v.t = "arraybuffer" -> STR_ABUF
      [] v.t = "view" ->
            JoinText([i \in 1..v.byteLength |->
                         Decimal(v.buffer[v.byteOffset + i])], v.byteLength)
      [] v.t = "array" ->
            JoinText([i \in 1..Len(v.items) |->
                         IF v.items[i].t \in {"null", "undefined"} THEN <<>>
                         ELSE ToText(v.items[i])], Len(v.items))

\* new Blob([data], { type }): a buffer part gives its bytes, any other
\* part its text; an absent type gives ""
NewBlob(data, type) ==
    Blob(IF type.t = "undefined" THEN <<>> ELSE ToText(type),
         CASE data.t = "view" ->
                  Slice(data.buffer, data.byteOffset,
                        data.byteOffset + data.byteLength)
           [] data.t = "arraybuffer" -> data.bytes
           [] data.t = "blob" -> data.bytes
           [] OTHER -> ToText(data),
         FALSE)

\* the Blob branch of prepForCBOR (lines 57-68), with
\* safeBlobToArrayBuffer (lines 47-54)
PrepBlob(item) ==
    IF item.late THEN Null
    ELSE Obj(<<[k |-> "__le_blob", v |-> Bool(TRUE)],
               [k |-> "type", v |-> Str(item.type)],
               [k |-> "data",
                v |-> View("Uint8Array", item.bytes, 0, Len(item.bytes))]>>)

\* prepForCBOR(item) (lines 56-81)
RECURSIVE PrepForCBOR(_)
PrepForCBOR(item) ==
    CASE item.t = "blob" -> PrepBlob(item)
      [] item.t = "view" ->
            View("Uint8Array",
                 Slice(item.buffer, item.byteOffset,
                       item.byteOffset + item.byteLength),
                 0, item.byteLength)
      [] item.t = "arraybuffer" ->
            View("Uint8Array", item.bytes, 0, Len(item.bytes))
      [] item.t = "array" ->
            Arr([i \in 1..Len(item.items) |-> PrepForCBOR(item.items[i])])
      [] item.t = "object" ->
            Obj([i \in 1..Len(item.fields) |->
                    [k |-> item.fields[i].k,
                     v |-> PrepForCBOR(item.fields[i].v)]])
      [] OTHER -> item

\* restoreFromCBOR(item) (lines 83-93)
RECURSIVE RestoreFromCBOR(_)
RestoreFromCBOR(item) ==
    CASE item.t \notin {"object", "array", "view", "arraybuffer", "blob"} -> item
      [] item.t = "object" /\ Truthy(Get(item, "__le_blob")) ->
            NewBlob(Get(item, "data"), Get(item, "type"))
      [] item.t = "array" ->
            Arr([i \in 1..Len(item.items) |-> RestoreFromCBOR(item.items[i])])
      [] item.t = "object" ->
            Obj([i \in 1..Len(item.fields) |->
                    [k |-> item.fields[i].k,
                     v |-> RestoreFromCBOR(item.fields[i].v)]])
      [] OTHER -> item

\* the values the codec is run on
MaxItems == 2

MIME == <<116, 47, 112>>    \* "t/p"

Leaves ==
    {Null, Bool(TRUE), Bool(FALSE), Num(1), Str(<<97>>),
     View("Uint16Array", <<1, 2, 3, 4>>, 2, 2), ArrayBuf(<<5, 6>>),
     Blob(MIME, <<7, 8>>, FALSE), Blob(MIME, <<9>>, TRUE)}

Arrays(S) == {Arr(q) : q \in UNION {[1..n -> S] : n \in 1..MaxItems}}

Mappings(S) ==
    {Obj(<<[k |-> "a", v |-> x]>>) : x \in S}
    \cup {Obj(<<[k |-> "__le_blob", v |-> b], [k |-> "data", v |-> x]>>) :
              b \in {Bool(TRUE), Bool(FALSE), Num(1)}, x \in S}
    \cup {Obj(<<[k |-> "__le_blob", v |-> Bool(TRUE)]>>)}

Values ==
    Leaves \cup Arrays(Leaves) \cup Mappings(Leaves)
        \cup Mappings(Arrays({Blob(MIME, <<7, 8>>, FALSE), Blob(MIME, <<9>>, TRUE)}))
        \cup Arrays(Mappings({Num(1), Blob(MIME, <<9>>, TRUE)}))

ValueInit ==
    /\ vItem \in Values
    /\ vPrep = Undefined /\ vBack = Undefined /\ vAgain = Undefined
    /\ vPc = "item"

\* await prepForCBOR(v)
ValuePrep ==
    /\ vPc = "item"
    /\ vPrep' = PrepForCBOR(vItem)
    /\ vPc' = "prepared"
    /\ UNCHANGED <<vItem, vBack, vAgain>>
    /\ UNCHANGED <<hdrVars, wVars, iVars, eVars, cVars, dVars, gVars, xVars, rVars, uVars>>

\* restoreFromCBOR of the result
ValueRestore ==
    /\ vPc = "prepared"
    /\ vBack' = RestoreFromCBOR(vPrep)
    /\ vPc' = "restored"
    /\ UNCHANGED <<vItem, vPrep, vAgain>>
    /\ UNCHANGED <<hdrVars, wVars, iVars, eVars, cVars, dVars, gVars, xVars, rVars, uVars>>

\* await prepForCBOR of the restored value
ValuePrepAgain ==
    /\ vPc = "restored"
    /\ vAgain' = PrepForCBOR(vBack)
    /\ vPc' = "done"
    /\ UNCHANGED <<vItem, vPrep, vBack>>
    /\ UNCHANGED <<hdrVars, wVars, iVars, eVars, cVars, dVars, gVars, xVars, rVars, uVars>>

SpecValueInit ==
    /\ UtilOff
    /\ HdrOff /\ WriterOff /\ ImportOff /\ CipherOff /\ ChainOff /\ ExportOff
    /\ RunOff
    /\ opts = [opfs |-> TRUE, onCustomItem |-> TRUE]
    /\ ValueInit

SpecValueNext == ValuePrep \/ ValueRestore \/ ValuePrepAgain

SpecValue == SpecValueInit /\ [][SpecValueNext]_vars

\* the values nested directly in v, and the value at a position (a
\* sequence of indices) of v
Children(v) ==
    IF v.t = "array" THEN v.items
    ELSE IF v.t = "object" THEN [i \in 1..Len(v.fields) |-> v.fields[i].v]
    ELSE <<>>

RECURSIVE At(_, _)
At(v, p) ==
    IF p = <<>> THEN v
    ELSE IF Head(p) \in DOMAIN Children(v)
    THEN At(Children(v)[Head(p)], Tail(p))
    ELSE Undefined

RECURSIVE Positions(_)
Positions(v) ==
    {<<>>} \cup UNION {{<<i>> \o q : q \in Positions(Children(v)[i])} :
                          i \in DOMAIN Children(v)}

IsLate(v) == v.t = "blob" /\ v.late

HasLate(v) == \E p \in Positions(v) : IsLate(At(v, p))

\* C27 (as stated): for every value without a timed-out blob, mappings
\* with a key named __le_blob included, externalizing the restored value
\* gives the first externalization again, and a blob comes back as a blob
\* of the same bytes and MIME type.
C27_RoundTripIdempotent ==
    (vPc = "done" /\ ~HasLate(vItem)) =>
        /\ vAgain = vPrep
        /\ vItem.t = "blob" => vBack = vItem

\* C28 (as stated): a blob whose read times out is externalized as null,
\* every other position of the enclosing value is externalized as it is
\* alone, and the restored value has null at the blob's position.
C28_TimeoutBecomesNull ==
    vPc = "done" =>
        \A p \in Positions(vItem) :
            /\ At(vPrep, p) = PrepForCBOR(At(vItem, p))
            /\ IsLate(At(vItem, p)) =>
                  (At(vPrep, p) = Null /\ At(vBack, p) = Null)

----------------------------------------------------------------------------
(* the entry paths of exportData                                          *)

\* "data/cache/"
STR_CACHE ==
    <<100, 97, 116, 97, 47, 99, 97, 99, 104, 101, 47>>
\* "/schema.cbor"
STR_SCHEMA ==
    <<47, 115, 99, 104, 101, 109, 97, 46, 99, 98, 111, 114>>
\* ".cbor"
STR_CBOR ==
    <<46, 99, 98, 111, 114>>

CHAR_PERCENT == 37
CHAR_PLUS    == 43
CHAR_EQUALS  == 61
CHAR_UNDER   == 95
CHAR_UPPER_A == 65
CHAR_LOWER_A == 97

\* the characters encodeURIComponent leaves alone: A-Z a-z 0-9 - _ . ! ~ * ' ( )
Unreserved ==
    (65..90) \cup (97..122) \cup (48..57)
        \cup {45, 95, 46, 33, 126, 42, 39, 40, 41}

HexDigit(d) == IF d < 10 THEN CHAR_ZERO + d ELSE CHAR_UPPER_A + (d - 10)

\* encodeURIComponent(s) for a string of characters below 128
RECURSIVE EncodeURIComponent(_)
EncodeURIComponent(s) ==
    IF s = <<>> THEN <<>>
    ELSE (IF Head(s) \in Unreserved THEN <<Head(s)>>
          ELSE <<CHAR_PERCENT, HexDigit(Head(s) \div 16), HexDigit(Head(s) % 16)>>)
         \o EncodeURIComponent(Tail(s))

\* the character of the base64 alphabet for a 6-bit value
B64Char(v) ==
    IF v < 26 THEN CHAR_UPPER_A + v
    ELSE IF v < 52 THEN CHAR_LOWER_A + (v - 26)
    ELSE IF v < 62 THEN CHAR_ZERO + (v - 52)
    ELSE IF v = 62 THEN CHAR_PLUS
    ELSE CHAR_SLASH

\* btoa(s): three bytes give four characters, the last group is padded
\* with "="
RECURSIVE Btoa(_)
Btoa(s) ==
    IF s = <<>> THEN <<>>
    ELSE IF Len(s) = 1
    THEN <<B64Char(s[1] \div 4), B64Char((s[1] % 4) * 16),
           CHAR_EQUALS, CHAR_EQUALS>>
    ELSE IF Len(s) = 2
    THEN <<B64Char(s[1] \div 4),
           B64Char((s[1] % 4) * 16 + s[2] \div 16),
           B64Char((s[2] % 16) * 4), CHAR_EQUALS>>
    ELSE <<B64Char(s[1] \div 4),
           B64Char((s[1] % 4) * 16 + s[2] \div 16),
           B64Char((s[2] % 16) * 4 + s[3] \div 64),
           B64Char(s[3] % 64)>> \o Btoa(SliceFrom(s, 3))

\* .slice(0, 50) of line 552
HASH_LEN == 50

\* btoa(req.url).slice(0, 50).replace(/\//g, "_")
SafeHash(url) ==
    LET h == Slice(Btoa(url), 0, Min(HASH_LEN, Len(Btoa(url))))
    IN  [i \in 1..Len(h) |-> IF h[i] = CHAR_SLASH THEN CHAR_UNDER ELSE h[i]]

\* `data/cache/${safeName}/${safeHash}.cbor` (lines 551-554)
CachePath(cacheName, url) ==
    STR_CACHE \o EncodeURIComponent(cacheName) \o <<CHAR_SLASH>>
        \o SafeHash(url) \o STR_CBOR

\* `data/idb/${name}/schema.cbor` (lines 456, 461)
SchemaPath(name) == STR_IDB \o name \o STR_SCHEMA

\* `data/idb/${name}/${sName}/${chunkId++}.cbor` (line 514)
BatchPath(name, sName, chunkId) ==
    STR_IDB \o name \o <<CHAR_SLASH>> \o sName \o <<CHAR_SLASH>>
        \o Decimal(chunkId) \o STR_CBOR

\* `data/custom/${item.path}` (line 352)
CustomPath(path) == STR_CUSTOM \o path

\* `opfs/${fullPath}` (line 576)
OpfsPath(fullPath) == STR_OPFS \o fullPath

\* "https://example.com/static/app/icons/", 37 characters
URL_BASE ==
    <<104, 116, 116, 112, 115, 58, 47, 47, 101, 120, 97, 109, 112, 108,
      101, 46, 99, 111, 109, 47, 115, 116, 97, 116, 105, 99, 47, 97, 112,
      112, 47, 105, 99, 111, 110, 115, 47>>
\* "https://x/?"
URL_SHORT ==
    <<104, 116, 116, 112, 115, 58, 47, 47, 120, 47, 63>>

URL_A == URL_BASE \o <<97>>     \* ...a
URL_B == URL_BASE \o <<98>>     \* ...b

----------------------------------------------------------------------------
(* exportData and importData: one call, statement by statement            *)

\* the concatenation of a sequence of sequences
RECURSIVE Concat(_)
Concat(ss) == IF ss = <<>> THEN <<>> ELSE Head(ss) \o Concat(Tail(ss))

\* an awaited statement that writes nothing: op is "list" (a listing or a
\* lookup of the page's storage), "open", "count" or "read" (IndexedDB)
Await(op, db) == [op |-> op, path |-> <<>>, db |-> db, awaited |-> TRUE]

\* a call of the writer that is left running
TarCall_StreamNotAwaited(op, path, db) ==
    [op |-> op, path |-> path, db |-> db, awaited |-> op # "stream"]

\* await tar.writeEntry(path, ...), await tar.writeStream(path, ...),
\* await tar.close(): op is "entry", "stream" or "close"; db is the number
\* of the database whose try block holds the call, 0 outside
TarCall(op, path, db) ==
    [op |-> op, path |-> path, db |-> db, awaited |-> TRUE]

\* 1. custom items (lines 350-362)
CustomSteps(env) ==
    [i \in 1..Len(env.custom) |->
        TarCall(IF env.custom[i].blob THEN "stream" ELSE "entry",
                CustomPath(env.custom[i].path), 0)]

\* 2. storage and cookies (lines 365-389)
StorageSteps(env) ==
    (IF env.localStorage THEN <<TarCall("entry", STR_LS, 0)>> ELSE <<>>)
        \o <<TarCall("entry", STR_SS, 0), TarCall("entry", STR_COOKIES, 0)>>

\* the batches of one store (lines 473-520): a read and an entry for each
\* batch, and the read that finds no more
StoreSteps(d, name, store) ==
    Concat([b \in 1..store.batches |->
               <<Await("read", d),
                 TarCall("entry", BatchPath(name, store.name, b - 1), d)>>])
        \o <<Await("read", d)>>

\* a database loop that writes the schema after the batches
DbSteps_SchemaLast(d, db) ==
    <<Await("open", d)>>
        \o [i \in 1..Len(db.stores) |-> Await("count", d)]
        \o Concat([i \in 1..Len(db.stores) |->
                      IF db.stores[i].batches > 0
                      THEN StoreSteps(d, db.name, db.stores[i]) ELSE <<>>])
        \o <<TarCall("entry", SchemaPath(db.name), d)>>

\* one database (lines 408-522): only stores that count above 0 are read
DbSteps(d, db) ==
    <<Await("open", d)>>
        \o [i \in 1..Len(db.stores) |-> Await("count", d)]
        \o <<TarCall("entry", SchemaPath(db.name), d)>>
        \o Concat([i \in 1..Len(db.stores) |->
                      IF db.stores[i].batches > 0
                      THEN StoreSteps(d, db.name, db.stores[i]) ELSE <<>>])

\* 3. IndexedDB (lines 392-532)
IdbSteps(env) ==
    <<Await("list", 0)>>
        \o Concat([d \in 1..Len(env.dbs) |-> DbSteps(d, env.dbs[d])])

\* 4. Cache (lines 535-562)
CacheSteps(env) ==
    <<Await("list", 0)>>
        \o Concat([c \in 1..Len(env.caches) |->
               <<Await("list", 0)>>
                   \o [u \in 1..Len(env.caches[c].urls) |->
                          TarCall("entry",
                                  CachePath(env.caches[c].name,
                                            env.caches[c].urls[u]), 0)]])

\* 5. OPFS (lines 565-586): files are the files of the tree in the order
\* walk meets them
OpfsSteps(env) ==
    <<Await("list", 0)>>
        \o [f \in 1..Len(env.files) |->
               TarCall("stream", OpfsPath(env.files[f]), 0)]

\* the statements of the try block that await, in order (lines 348-588)
Plan(env) ==
    CustomSteps(env) \o StorageSteps(env) \o IdbSteps(env) \o CacheSteps(env)
        \o OpfsSteps(env) \o <<TarCall("close", <<>>, 0)>>

\* the first statement after the try block of the database of statement k
NextAfterDb(plan, k) ==
    CHOOSE j \in (k + 1)..Len(plan) :
        /\ plan[j].db # plan[k].db
        /\ \A m \in (k + 1)..(j - 1) : plan[m].db = plan[k].db

\* a catch of the database loop that gives the error to the outer catch
OnIdbError_Rethrows(plan, k) ==
    [note |-> <<>>, step |-> k, pc |-> "catch"]

\* catch (e) { logger(`IndexedDB error: ...`); ...; continue; }
\* (lines 523-530)
OnIdbError(plan, k) ==
    [note |-> <<"IndexedDB error">>, step |-> NextAfterDb(plan, k),
     pc |-> "body"]

\* the parts one operation writes, in order (lines 139-167)
PartsOf(op) ==
    IF op = "close" THEN <<"end">> ELSE <<"header", "payload", "padding">>

\* the pages exportData is run on
MaxBatches == 2

DbOf(name, stores) == [name |-> name, stores |-> stores]

StoreOf(name, batches) == [name |-> name, batches |-> batches]

\* custom items "x" (a Blob) and "y"
Customs ==
    <<[path |-> <<120>>, blob |-> TRUE], [path |-> <<121>>, blob |-> FALSE]>>

\* databases "d" (stores "s" and "e", "e" empty) and "f" (no store);
\* databases "a" (store "b/c") and "a/b" (store "c")
DbsPlain ==
    <<DbOf(<<100>>, <<StoreOf(<<115>>, MaxBatches), StoreOf(<<101>>, 0)>>),
      DbOf(<<102>>, <<>>)>>

DbsSlash ==
    <<DbOf(<<97>>, <<StoreOf(<<98, 47, 99>>, 1)>>),
      DbOf(<<97, 47, 98>>, <<StoreOf(<<99>>, 1)>>)>>

\* caches "v1" and "v/2"
CachesPlain ==
    <<[name |-> <<118, 49>>, urls |-> <<URL_SHORT, URL_A>>],
      [name |-> <<118, 47, 50>>, urls |-> <<URL_SHORT>>]>>

\* a cache with two URLs that agree in their first 37 characters
CachesLong == <<[name |-> <<118, 49>>, urls |-> <<URL_A, URL_B>>]>>

\* files "f" and "d/g"
Files == <<<<102>>, <<100, 47, 103>>>>

EnvOf(custom, dbs, caches, files) ==
    [picker |-> "none", custom |-> custom, localStorage |-> TRUE,
     dbs |-> dbs, caches |-> caches, files |-> files, throws |-> {},
     storage |-> "ok", bodyThrows |-> FALSE]

Pages ==
    {EnvOf(<<>>, <<>>, <<>>, <<>>),
     EnvOf(Customs, DbsPlain, CachesPlain, Files),
     EnvOf(<<>>, DbsPlain, <<>>, Files),
     EnvOf(<<>>, DbsSlash, <<>>, <<>>),
     EnvOf(<<>>, <<>>, CachesLong, <<>>)}

\* the statements whose promise rejects: at most one anywhere, or any
\* number of IndexedDB requests (open, count, read)
ThrowSets(env) ==
    LET plan == Plan(env)
        idb  == {k \in DOMAIN plan : plan[k].op \in {"open", "count", "read"}}
    IN  {{}} \cup {{k} : k \in DOMAIN plan}
             \cup {{j, k} : j, k \in idb}

Pickers == {"none", "ok", "abort", "fail"}

RunInit ==
    /\ rCall \in {"export", "import"}
    /\ IF rCall = "export"
       THEN /\ \E e \in Pages, p \in Pickers :
                 /\ p # "none" => e.dbs = <<>>
                 /\ rEnv \in {[e EXCEPT !.picker = p, !.throws = t] :
                                 t \in ThrowSets(e)}
            /\ rPc = "picker"
       ELSE /\ rEnv \in {[EnvOf(<<>>, <<>>, <<>>, <<>>)
                             EXCEPT !.storage = st, !.bodyThrows = b] :
                            st \in {"ok", "reject"}, b \in BOOLEAN}
            /\ rPc = "getDirectory"
    /\ rStep = 0 /\ rOps = <<>> /\ rOut = <<>> /\ rPaths = <<>> /\ rLog = <<>>

\* the save-file picker (lines 306-317)
RunPicker ==
    /\ rPc = "picker"
    /\ IF rEnv.picker = "abort"
       THEN rLog' = Append(rLog, "Export cancelled.") /\ rPc' = "returned"
       ELSE rLog' = rLog /\ rPc' = "build"
    /\ UNCHANGED <<rCall, rEnv, rStep, rOps, rOut, rPaths>>
    /\ UNCHANGED <<hdrVars, wVars, iVars, eVars, cVars, dVars, gVars, xVars, vVars, uVars>>

\* the sink, the chain and the writer (lines 319-346)
RunBuild ==
    /\ rPc = "build"
    /\ rPc' = "body" /\ rStep' = 1
    /\ UNCHANGED <<rCall, rEnv, rOps, rOut, rPaths, rLog>>
    /\ UNCHANGED <<hdrVars, wVars, iVars, eVars, cVars, dVars, gVars, xVars, vVars, uVars>>

\* the next statement of the try block (lines 348-588)
RunStep ==
    /\ rPc = "body" /\ rStep \in DOMAIN Plan(rEnv)
    /\ LET plan == Plan(rEnv)
           st   == plan[rStep]
       IN  IF rStep \in rEnv.throws
           THEN IF st.db # 0
                THEN LET c == OnIdbError(plan, rStep)
                     IN  /\ rLog' = rLog \o c.note
                         /\ rStep' = c.step /\ rPc' = c.pc
                         /\ UNCHANGED <<rOps, rPaths>>
                ELSE /\ rPc' = "catch"
                     /\ UNCHANGED <<rStep, rOps, rPaths, rLog>>
           ELSE IF st.op \in {"entry", "stream", "close"}
           THEN /\ rPaths' = Append(rPaths, st.path)
                /\ rOps' = Append(rOps, [id |-> Len(rPaths) + 1,
                                         parts |-> PartsOf(st.op)])
                /\ IF st.awaited
                   THEN rPc' = "await" /\ rStep' = rStep
                   ELSE rPc' = "body" /\ rStep' = rStep + 1
                /\ rLog' = rLog
           ELSE /\ rStep' = rStep + 1
                /\ UNCHANGED <<rPc, rOps, rPaths, rLog>>
    /\ UNCHANGED <<rCall, rEnv, rOut>>
    /\ UNCHANGED <<hdrVars, wVars, iVars, eVars, cVars, dVars, gVars, xVars, vVars, uVars>>

\* one await this.writer.write(chunk) of an operation of the writer, or
\* its writer.close() (lines 139-167)
TarAdvance ==
    /\ \E i \in DOMAIN rOps :
          /\ rOut' = Append(rOut, [id |-> rOps[i].id, part |-> Head(rOps[i].parts)])
          /\ rOps' = IF Len(rOps[i].parts) = 1
                     THEN Slice(rOps, 0, i - 1) \o SliceFrom(rOps, i)
                     ELSE [rOps EXCEPT ![i].parts = Tail(@)]
    /\ UNCHANGED <<rCall, rEnv, rPc, rStep, rPaths, rLog>>
    /\ UNCHANGED <<hdrVars, wVars, iVars, eVars, cVars, dVars, gVars, xVars, vVars, uVars>>

\* the awaited operation has completed
RunResume ==
    /\ rPc = "await"
    /\ \A i \in DOMAIN rOps : rOps[i].id # Len(rPaths)
    /\ rPc' = "body" /\ rStep' = rStep + 1
    /\ UNCHANGED <<rCall, rEnv, rOps, rOut, rPaths, rLog>>
    /\ UNCHANGED <<hdrVars, wVars, iVars, eVars, cVars, dVars, gVars, xVars, vVars, uVars>>

\* after tar.close() (lines 589-598)
RunComplete ==
    /\ rPc = "body" /\ rStep = Len(Plan(rEnv)) + 1
    /\ rLog' = Append(rLog, "Export complete!")
    /\ rPc' = "returned"
    /\ UNCHANGED <<rCall, rEnv, rStep, rOps, rOut, rPaths>>
    /\ UNCHANGED <<hdrVars, wVars, iVars, eVars, cVars, dVars, gVars, xVars, vVars, uVars>>

\* catch (e) of exportData (lines 599-605)
RunCatch ==
    /\ rPc = "catch"
    /\ rLog' = Append(rLog, "Export error")
    /\ rPc' = "returned"
    /\ UNCHANGED <<rCall, rEnv, rStep, rOps, rOut, rPaths>>
    /\ UNCHANGED <<hdrVars, wVars, iVars, eVars, cVars, dVars, gVars, xVars, vVars, uVars>>

\* const rootOpfs = await navigator.storage.getDirectory() (line 613),
\* before the try block: a rejection ends the call
RunGetDirectory ==
    /\ rPc = "getDirectory"
    /\ rPc' = IF rEnv.storage = "reject" THEN "rejected" ELSE "importBody"
    /\ UNCHANGED <<rCall, rEnv, rStep, rOps, rOut, rPaths, rLog>>
    /\ UNCHANGED <<hdrVars, wVars, iVars, eVars, cVars, dVars, gVars, xVars, vVars, uVars>>

\* the try block of importData and its catch (lines 615-830)
RunImportBody ==
    /\ rPc = "importBody"
    /\ rLog' = Append(rLog, IF rEnv.bodyThrows THEN "Error" ELSE "Import complete!")
    /\ rPc' = "returned"
    /\ UNCHANGED <<rCall, rEnv, rStep, rOps, rOut, rPaths>>
    /\ UNCHANGED <<hdrVars, wVars, iVars, eVars, cVars, dVars, gVars, xVars, vVars, uVars>>

SpecRunInit ==
    /\ UtilOff
    /\ HdrOff /\ WriterOff /\ ImportOff /\ CipherOff /\ ChainOff /\ ExportOff
    /\ ValueOff
    /\ opts = [opfs |-> TRUE, onCustomItem |-> TRUE]
    /\ RunInit

SpecRunNext ==
    \/ RunPicker \/ RunBuild \/ RunStep \/ TarAdvance \/ RunResume
    \/ RunComplete \/ RunCatch \/ RunGetDirectory \/ RunImportBody

SpecRun == SpecRunInit /\ [][SpecRunNext]_vars

\* the parts of n whole entries, one entry after the other
WholeParts(n) ==
    [i \in 1..(3 * n) |->
        [id |-> ((i - 1) \div 3) + 1,
         part |-> <<"header", "payload", "padding">>[((i - 1) % 3) + 1]]]

\* C22: exportData has at most one operation of the writer in flight, and
\* the parts written never interleave: a header is followed by the payload
\* and the padding of its own entry, and then comes the next operation.
C22_OneOperationInFlight ==
    rCall = "export" =>
        /\ Len(rOps) <= 1
        /\ \A i \in 2..Len(rOut) :
              IF rOut[i - 1].part \in {"header", "payload"}
              THEN rOut[i].id = rOut[i - 1].id
              ELSE rOut[i].id = rOut[i - 1].id + 1
        /\ rPc = "body" => (rOps = <<>> /\ Len(rOut) >= 3 * (Len(rPaths) - 1))

\* an export of all five categories has completed
C22_Witness ==
    /\ rCall = "export" /\ rPc = "returned"
    /\ rEnv.custom # <<>> /\ rEnv.dbs # <<>> /\ rEnv.caches # <<>>
    /\ rEnv.files # <<>> /\ rEnv.throws = {}
    /\ rLog = <<"Export complete!">>
    /\ rOut = Append(WholeParts(Len(rPaths) - 1),
                     [id |-> Len(rPaths), part |-> "end"])

\* C26 (as stated): the paths of the entries exportData writes into one
\* archive are pairwise distinct.
C26_PathsDistinct ==
    rCall = "export" =>
        \A i, j \in DOMAIN rPaths : i # j => rPaths[i] # rPaths[j]

TerminalNotes ==
    {"Export complete!", "Export error", "Export cancelled.",
     "Import complete!", "Error"}

Terminals == {i \in DOMAIN rLog : rLog[i] \in TerminalNotes}

\* C29 (as stated): a call never emits two terminal notifications, and a
\* call that has ended has emitted one.
C29_OneTerminalNotification ==
    rCall \in {"export", "import"} =>
        /\ Cardinality(Terminals) <= 1
        /\ rPc \in {"returned", "rejected"} => Cardinality(Terminals) = 1

\* the statements that reject are IndexedDB requests, and there is one
IdbErrorsOnly ==
    /\ rCall = "export" /\ rEnv.throws # {}
    /\ \A k \in rEnv.throws : Plan(rEnv)[k].op \in {"open", "count", "read"}

\* the databases with a request that rejects
FailedDbs == {Plan(rEnv)[k].db : k \in rEnv.throws}

\* the paths of the entries of a page when the requests of throws reject:
\* of a database everything from its first rejected request on is missing
RECURSIVE KeptPaths(_, _, _)
KeptPaths(plan, throws, k) ==
    IF k = 0 THEN <<>>
    ELSE KeptPaths(plan, throws, k - 1)
         \o (IF /\ plan[k].op \in {"entry", "stream", "close"}
                /\ ~\E j \in throws : j <= k /\ plan[j].db = plan[k].db
             THEN <<plan[k].path>> ELSE <<>>)

\* C30: when requests of IndexedDB databases reject, exportData never
\* reaches its catch; between two statements every entry started is in
\* the output with header, payload and padding; the entries written are
\* those before the rejected request of each failed database and all
\* entries of the other databases and categories; and the call ends with
\* one "IndexedDB error" per failed database and "Export complete!".
C30_IdbErrorContained ==
    IdbErrorsOnly =>
        LET kept == KeptPaths(Plan(rEnv), rEnv.throws, Len(Plan(rEnv)))
        IN  /\ rPc # "catch"
            /\ IsPrefix(rPaths, kept)
            /\ (rPc = "body" /\ rStep <= Len(Plan(rEnv))) =>
                  (rOps = <<>> /\ rOut = WholeParts(Len(rPaths)))
            /\ rPc = "returned" =>
                  /\ rPaths = kept
                  /\ rOut = Append(WholeParts(Len(rPaths) - 1),
                                   [id |-> Len(rPaths), part |-> "end"])
                  /\ rLog = [i \in 1..Cardinality(FailedDbs) |-> "IndexedDB error"]
                                \o <<"Export complete!">>

\* a read of the first database rejected after a batch was written, and
\* the schema of the second database is in the archive
C30_Witness ==
    /\ IdbErrorsOnly /\ rPc = "returned"
    /\ rEnv.dbs = DbsPlain /\ FailedDbs = {1}
    /\ \E i, j \in DOMAIN rPaths :
          /\ i < j
          /\ rPaths[i] = BatchPath(DbsPlain[1].name, DbsPlain[1].stores[1].name, 0)
          /\ rPaths[j] = SchemaPath(DbsPlain[2].name)
    /\ \A i \in DOMAIN rPaths :
          rPaths[i] # BatchPath(DbsPlain[1].name, DbsPlain[1].stores[1].name, 1)

----------------------------------------------------------------------------
(* importData on the archives exportData writes                           *)

\* name.split("/")
RECURSIVE Split(_)
Split(s) ==
    IF \E i \in DOMAIN s : s[i] = CHAR_SLASH
    THEN LET i == CHOOSE j \in DOMAIN s :
                      s[j] = CHAR_SLASH /\ \A m \in 1..(j - 1) : s[m] # CHAR_SLASH
         IN  <<Slice(s, 0, i - 1)>> \o Split(SliceFrom(s, i))
    ELSE <<s>>

EndsWith(s, t) == Len(s) >= Len(t) /\ SliceFrom(s, Len(s) - Len(t)) = t

\* what the "data/idb/" branch takes from the path (lines 748-750, 791):
\* parts[2] is the database, parts[3] the store of a batch
IdbTarget(name) ==
    LET parts == Split(name)
    IN  [schema |-> EndsWith(name, SliceFrom(STR_SCHEMA, 1)),
         db     |-> IF Len(parts) >= 3 THEN parts[3] ELSE <<>>,
         store  |-> IF Len(parts) >= 4 THEN parts[4] ELSE <<>>]

\* the store a batch statement of database db was written for
StoreOfStep(db, path) ==
    IF \E i \in DOMAIN db.stores, b \in 0..(MaxBatches + 1) :
           path = BatchPath(db.name, db.stores[i].name, b)
    THEN db.stores[CHOOSE i \in DOMAIN db.stores :
                      \E b \in 0..(MaxBatches + 1) :
                          path = BatchPath(db.name, db.stores[i].name, b)].name
    ELSE <<>>

\* the entries of the archive exportData writes on a page, in the order of
\* its statements, each with the database and store it was exported from
RECURSIVE ArchiveOf(_, _, _)
ArchiveOf(env, plan, k) ==
    IF k = 0 THEN <<>>
    ELSE ArchiveOf(env, plan, k - 1)
         \o (IF plan[k].op \in {"entry", "stream"}
             THEN <<[path |-> plan[k].path, size |-> 1,
                     viaStream |-> plan[k].op = "stream",
                     db |-> IF plan[k].db = 0 THEN <<>>
                            ELSE env.dbs[plan[k].db].name,
                     store |-> IF plan[k].db = 0 THEN <<>>
                               ELSE StoreOfStep(env.dbs[plan[k].db],
                                                plan[k].path),
                     isDb |-> plan[k].db # 0]>>
             ELSE <<>>)

\* database "/idbfs" with store "FILE_DATA"
DbsIdbfs ==
    <<DbOf(<<47, 105, 100, 98, 102, 115>>,
           <<StoreOf(<<70, 73, 76, 69, 95, 68, 65, 84, 65>>, 1)>>)>>

RestorePages ==
    {EnvOf(<<>>, DbsPlain, CachesPlain, <<>>),
     EnvOf(<<>>, DbsSlash, <<>>, <<>>),
     EnvOf(<<>>, DbsIdbfs, <<>>, Files)}

SpecRestoreInit ==
    /\ UtilOff
    /\ HdrOff /\ CipherOff /\ ChainOff /\ ExportOff /\ ValueOff /\ RunOff
    /\ wEntries \in {ArchiveOf(e, Plan(e), Len(Plan(e))) : e \in RestorePages}
    /\ wIdx = 0 /\ wPos = 0 /\ wSink = <<>> /\ wPc = "idle" /\ wOff = 0
    /\ ImportInit

SpecRestoreNext ==
    \/ WriteEntry \/ WriteStreamBegin \/ WriteStreamChunk \/ WriteStreamEnd
    \/ WriterClose
    \/ ImportStart \/ EnsureRead \/ HeaderStep \/ MemoryStep
    \/ StreamRead \/ StreamClose \/ SkipRead

SpecRestore == SpecRestoreInit /\ [][SpecRestoreNext]_vars

\* the import has read the whole archive and ended
WholeImport == iPc = "end" /\ wPc = "closed" /\ iCut = Len(wSink)

\* C31 (as stated): after the import of a whole archive, every
\* data/cache/<cache>/<hash>.cbor entry of the archive was handed to a
\* backend.
C31_CacheRestored ==
    WholeImport =>
        \A k \in DOMAIN wEntries :
            StartsWith(wEntries[k].path, STR_CACHE) =>
                \E j \in DOMAIN iDispatched :
                    iDispatched[j].name = wEntries[k].path

\* C32 (as stated): the database and store importData takes from the path
\* of a batch entry are the database and store the batch was exported
\* from.
C32_IdbNamesRoundTrip ==
    \A j \in DOMAIN iDispatched :
        (iDispatched[j].target = "idb" /\ ~IdbTarget(iDispatched[j].name).schema) =>
            \A k \in DOMAIN wEntries :
                (wEntries[k].isDb /\ wEntries[k].path = iDispatched[j].name) =>
                    /\ IdbTarget(iDispatched[j].name).db = wEntries[k].db
                    /\ IdbTarget(iDispatched[j].name).store = wEntries[k].store

\* the positions in the archive es of the entries importData hands to a
\* backend, in order
RECURSIVE DispatchedIdx(_, _, _)
DispatchedIdx(es, k, o) ==
    IF k = 0 THEN <<>>
    ELSE DispatchedIdx(es, k - 1, o)
         \o (IF IsDispatched(es[k], o) THEN <<k>> ELSE <<>>)

IsSchemaOf(e, db) == e.isDb /\ e.db = db /\ e.path = SchemaPath(db)

IsBatch(e) == e.isDb /\ e.path # SchemaPath(e.db)

\* C38: in the archive the schema entry of a database precedes every batch
\* entry of that database; importData hands the entries to the backends in
\* archive order; so when a batch of a database is put, the schema of that
\* database was handled before it and is not handled after it.
C38_SchemaBeforeRecords ==
    (wPc = "closed" /\ iPc # "off") =>
        LET idx == DispatchedIdx(wEntries, Len(wEntries), opts)
        IN  /\ \A k \in DOMAIN wEntries :
                  IsBatch(wEntries[k]) =>
                      /\ \E i \in 1..(k - 1) :
                            IsSchemaOf(wEntries[i], wEntries[k].db)
                      /\ \A i \in k..Len(wEntries) :
                            ~IsSchemaOf(wEntries[i], wEntries[k].db)
            /\ Len(iDispatched) <= Len(idx)
            /\ \A j \in DOMAIN iDispatched :
                  /\ iDispatched[j].name = wEntries[idx[j]].path
                  /\ IsBatch(wEntries[idx[j]]) =>
                        /\ \E i \in 1..(j - 1) :
                              IsSchemaOf(wEntries[idx[i]], wEntries[idx[j]].db)
                        /\ \A i \in j..Len(iDispatched) :
                              ~IsSchemaOf(wEntries[idx[i]], wEntries[idx[j]].db)

\* the whole archive of databases "d" and "f" was imported: both batches
\* of "d" were put, and the schema of "f" came after them
C38_Witness ==
    /\ WholeImport /\ iLog = "complete"
    /\ \E i, j, k \in DOMAIN iDispatched :
          /\ i < j /\ j < k
          /\ iDispatched[i].name = SchemaPath(DbsPlain[1].name)
          /\ iDispatched[j].name =
                 BatchPath(DbsPlain[1].name, DbsPlain[1].stores[1].name, 1)
          /\ iDispatched[k].name = SchemaPath(DbsPlain[2].name)

---------------------------------------------------------------------------
(* isAllowed. config.include and config.exclude hold, per category, the   *)
(* record [has, terms]: has is FALSE when the option or its entry for the *)
(* category is undefined, terms is the array otherwise.                   *)

Categories == {"opfs", "idb"}

\* a term that matches every path it is a prefix of
Matches_PrefixOnly(path, t) == StartsWith(path, t)

\* (t) => path === t || path.startsWith(t + "/")
Matches(path, t) == path = t \/ StartsWith(path, t \o <<CHAR_SLASH>>)

\* list?.some((t) => ...)
SomeMatches(list, path) ==
    list.has /\ \E i \in DOMAIN list.terms : Matches(path, list.terms[i])

IsAllowed(category, path, config) ==
    IF SomeMatches(config.exclude[category], path) THEN FALSE
    ELSE IF config.include[category].has
              /\ Len(config.include[category].terms) > 0
         THEN SomeMatches(config.include[category], path)
         ELSE TRUE

STR_USER      == <<117, 115, 101, 114, 95>>                       \* "user_"
STR_USER_NAME == STR_USER \o <<110, 97, 109, 101>>                \* "user_name"
STR_A         == <<65>>                                           \* "A"
STR_AB        == <<65, 47, 66>>                                   \* "A/B"
STR_ABF       == <<65, 47, 66, 47, 102>>                          \* "A/B/f"
STR_F         == <<102>>                                          \* "f"

MaxTerms == 2

FilterTerms == {STR_USER, STR_A, STR_AB}

FilterPaths ==
    {STR_USER, STR_USER_NAME, STR_USER \o <<CHAR_SLASH>> \o STR_F,
     STR_A, STR_AB, STR_ABF, STR_F}

NoList == [has |-> FALSE, terms |-> <<>>]

TermLists ==
    {NoList} \cup
    UNION {{[has |-> TRUE, terms |-> l] : l \in [1..n -> FilterTerms]}
              : n \in 0..MaxTerms}

\* an option of exportData with one category filled in
OnlyFor(category, list) ==
    [c \in Categories |-> IF c = category THEN list ELSE NoList]

FilterInit ==
    /\ fCat \in Categories
    /\ fPath \in FilterPaths
    /\ \E inc, exc \in TermLists, other \in Categories :
          fOpts = [include |-> OnlyFor(other, inc),
                   exclude |-> OnlyFor(fCat, exc)]
    /\ fAllowed = FALSE
    /\ fTree = <<>> /\ fStack = <<>> /\ fWritten = <<>>
    /\ fPc = "input"

FilterCall ==
    /\ fPc = "input"
    /\ fAllowed' = IsAllowed(fCat, fPath, fOpts)
    /\ fPc' = "returned"
    /\ UNCHANGED <<fOpts, fCat, fPath, fTree, fStack, fWritten>>
    /\ UNCHANGED <<hdrVars, wVars, iVars, eVars, cVars, dVars, gVars, xVars,
                   vVars, rVars, oVars, bVars, sVars>>

SpecAllowedInit ==
    /\ HdrOff /\ WriterOff /\ ImportOff /\ CipherOff /\ ChainOff /\ ExportOff
    /\ ValueOff /\ RunOff /\ OctalOff /\ BatchOff /\ SerialOff
    /\ opts = [opfs |-> TRUE, onCustomItem |-> TRUE]
    /\ FilterInit

SpecAllowedNext == FilterCall

SpecAllowed == SpecAllowedInit /\ [][SpecAllowedNext]_vars

\* the term t is the path, or t stands at the start of the path and the
\* character after it is "/"
TermCovers(t, path) ==
    \/ t = path
    \/ /\ Len(path) > Len(t)
       /\ \A i \in 1..Len(t) : path[i] = t[i]
       /\ path[Len(t) + 1] = CHAR_SLASH

\* some term of the category's list covers the path
Covered(list, path) ==
    list.has /\ \E i \in DOMAIN list.terms : TermCovers(list.terms[i], path)

\* C33: isAllowed returns false whenever an exclude term of the category
\* equals the path or is followed in it by "/", whatever the include list
\* says; otherwise, with a non-empty include list for the category, it
\* returns true exactly when an include term equals the path or is followed
\* in it by "/"; otherwise true. With the single include term "user_" the
\* path "user_" is allowed and the path "user_name" is not.
C33_IsAllowed ==
    fPc = "returned" =>
        LET inc == fOpts.include[fCat]
            exc == fOpts.exclude[fCat]
        IN  /\ Covered(exc, fPath) => ~fAllowed
            /\ (~Covered(exc, fPath) /\ inc.has /\ Len(inc.terms) > 0) =>
                   (fAllowed <=> Covered(inc, fPath))
            /\ (~Covered(exc, fPath) /\ ~(inc.has /\ Len(inc.terms) > 0)) =>
                   fAllowed
            /\ (~exc.has /\ inc.has /\ inc.terms = <<STR_USER>>) =>
                   /\ fPath = STR_USER => fAllowed
                   /\ fPath = STR_USER_NAME => ~fAllowed

\* "user_name" was refused under the include list ["user_"], with nothing
\* excluded
C33_Witness ==
    /\ fPc = "returned" /\ fPath = STR_USER_NAME /\ ~fAllowed
    /\ fOpts.include[fCat] = [has |-> TRUE, terms |-> <<STR_USER>>]
    /\ ~fOpts.exclude[fCat].has

---------------------------------------------------------------------------
(* The OPFS walk of exportData. A directory is the list of its entries    *)
(* [name, kind, children]; a call of walk in progress is the frame        *)
(* [path, rest]: its path argument and the entries its loop has not       *)
(* reached yet.                                                           *)

File(name)          == [name |-> name, kind |-> "file", children |-> <<>>]
Directory(name, es) == [name |-> name, kind |-> "directory", children |-> es]

\* path ? `${path}/${entry.name}` : entry.name
FullPath(path, name) ==
    IF path # <<>> THEN path \o <<CHAR_SLASH>> \o name ELSE name

\* A/B/f, A/f and f
TreeNested ==
    <<Directory(STR_A, <<Directory(<<66>>, <<File(STR_F)>>), File(STR_F)>>),
      File(STR_F)>>

\* user_/f and user_name
TreeUser ==
    <<Directory(STR_USER, <<File(STR_F)>>), File(STR_USER_NAME)>>

WalkInit ==
    /\ fCat = "opfs"
    /\ fPath = <<>>
    /\ \E inc, exc \in TermLists :
          fOpts = [include |-> OnlyFor("opfs", inc),
                   exclude |-> OnlyFor("opfs", exc)]
    /\ fAllowed = FALSE
    /\ fTree \in {TreeNested, TreeUser}
    /\ fStack = <<>> /\ fWritten = <<>>
    /\ fPc = "scan"

\* await walk(root, "")
WalkStart ==
    /\ fPc = "scan"
    /\ fStack' = <<[path |-> <<>>, rest |-> fTree]>>
    /\ fPc' = "walk"
    /\ UNCHANGED <<fOpts, fCat, fPath, fAllowed, fTree, fWritten>>
    /\ UNCHANGED <<hdrVars, wVars, iVars, eVars, cVars, dVars, gVars, xVars,
                   vVars, rVars, oVars, bVars, sVars>>

\* one turn of the loop of the innermost walk
WalkEntry ==
    /\ fPc = "walk" /\ fStack # <<>>
    /\ fStack[Len(fStack)].rest # <<>>
    /\ LET top      == fStack[Len(fStack)]
           entry    == Head(top.rest)
           fullPath == FullPath(top.path, entry.name)
           allowed  == IsAllowed("opfs", fullPath, fOpts)
           below    == SubSeq(fStack, 1, Len(fStack) - 1)
                           \o <<[top EXCEPT !.rest = Tail(top.rest)]>>
       IN  /\ fPath' = fullPath
           /\ fAllowed' = allowed
           /\ fWritten' = IF allowed /\ entry.kind = "file"
                          THEN Append(fWritten, STR_OPFS \o fullPath)
                          ELSE fWritten
           /\ fStack' = IF allowed /\ entry.kind = "directory"
                        THEN Append(below, [path |-> fullPath,
                                            rest |-> entry.children])
                        ELSE below
    /\ UNCHANGED <<fOpts, fCat, fTree, fPc>>
    /\ UNCHANGED <<hdrVars, wVars, iVars, eVars, cVars, dVars, gVars, xVars,
                   vVars, rVars, oVars, bVars, sVars>>

\* the loop of the innermost walk is over
WalkReturn ==
    /\ fPc = "walk" /\ fStack # <<>>
    /\ fStack[Len(fStack)].rest = <<>>
    /\ fStack' = SubSeq(fStack, 1, Len(fStack) - 1)
    /\ fPc' = IF Len(fStack) = 1 THEN "walked" ELSE "walk"
    /\ UNCHANGED <<fOpts, fCat, fPath, fAllowed, fTree, fWritten>>
    /\ UNCHANGED <<hdrVars, wVars, iVars, eVars, cVars, dVars, gVars, xVars,
                   vVars, rVars, oVars, bVars, sVars>>

SpecWalkInit ==
    /\ HdrOff /\ WriterOff /\ ImportOff /\ CipherOff /\ ChainOff /\ ExportOff
    /\ ValueOff /\ RunOff /\ OctalOff /\ BatchOff /\ SerialOff
    /\ opts = [opfs |-> TRUE, onCustomItem |-> TRUE]
    /\ WalkInit

SpecWalkNext == WalkStart \/ WalkEntry \/ WalkReturn

SpecWalk == SpecWalkInit /\ [][SpecWalkNext]_vars

\* the paths of the files of a directory, the directory being at path
RECURSIVE FilesUnder(_, _)
FilesUnder(es, path) ==
    IF es = <<>> THEN {}
    ELSE LET fullPath == FullPath(path, Head(es).name)
         IN  (IF Head(es).kind = "file" THEN {fullPath}
              ELSE FilesUnder(Head(es).children, fullPath))
             \cup FilesUnder(Tail(es), path)

\* C34 (as stated): when the walk is over, for every include.opfs term
\* every file whose path is that folder or lies under it, and which no
\* exclude term covers, was given to tar.writeStream.
C34_FolderIncludesChildren ==
    fPc = "walked" =>
        \A i \in DOMAIN fOpts.include["opfs"].terms :
            \A p \in FilesUnder(fTree, <<>>) :
                (/\ TermCovers(fOpts.include["opfs"].terms[i], p)
                 /\ ~Covered(fOpts.exclude["opfs"], p)) =>
                    \E k \in DOMAIN fWritten : fWritten[k] = STR_OPFS \o p

---------------------------------------------------------------------------
(* The size field for sizes of any magnitude. A size is the string of its *)
(* octal digits, most significant first and without leading zeros, which  *)
(* is what size.toString(8) returns.                                      *)

MaxDigits == 12

IsOctalDigit(c) == c >= CHAR_ZERO /\ c <= CHAR_ZERO + 7

\* the numerals of one digit, and those of 2..MaxDigits digits made of a
\* leading digit, a run of one digit and a last digit
SizeNumerals ==
    {<<CHAR_ZERO + d>> : d \in 0..7} \cup
    {<<CHAR_ZERO + a>> \o Repeat(CHAR_ZERO + m, n - 2) \o <<CHAR_ZERO + z>> :
        a \in {1, 7}, m \in {0, 7}, z \in {0, 1, 7}, n \in 2..MaxDigits}

\* writeOctal(size, 124, 12) on the zeroed buffer: the octets 124..135
SizeField(digits) ==
    Slice(WriteOctalDigits(Zeros(BLOCK), digits, SIZE_OFF, SIZE_LEN),
          SIZE_OFF, SIZE_OFF + SIZE_LEN)

\* the longest prefix of octal digits of s
RECURSIVE DigitPrefix(_)
DigitPrefix(s) ==
    IF s # <<>> /\ IsOctalDigit(Head(s))
    THEN <<Head(s)>> \o DigitPrefix(Tail(s))
    ELSE <<>>

\* a string of digits without its leading zeros
RECURSIVE Numeral(_)
Numeral(ds) ==
    IF Len(ds) > 1 /\ Head(ds) = CHAR_ZERO THEN Numeral(Tail(ds)) ELSE ds

\* parseInt(DEC.decode(header.slice(124, 136)).trim(), 8) as a numeral;
\* the empty string stands for NaN
ParseSizeDigits(field) == Numeral(DigitPrefix(SkipWhite(field)))

OctalInit ==
    /\ oDigits \in SizeNumerals
    /\ oField = <<>> /\ oDec = <<>>
    /\ oPc = "input"

\* createTarHeader writes the size
OctalWrite ==
    /\ oPc = "input"
    /\ oField' = SizeField(oDigits)
    /\ oPc' = "written"
    /\ UNCHANGED <<oDigits, oDec>>
    /\ UNCHANGED <<hdrVars, wVars, iVars, eVars, cVars, dVars, gVars, xVars,
                   vVars, rVars, fVars, bVars, sVars>>

\* importData reads it
OctalRead ==
    /\ oPc = "written"
    /\ oDec' = ParseSizeDigits(oField)
    /\ oPc' = "read"
    /\ UNCHANGED <<oDigits, oField>>
    /\ UNCHANGED <<hdrVars, wVars, iVars, eVars, cVars, dVars, gVars, xVars,
                   vVars, rVars, fVars, bVars, sVars>>

SpecSizeInit ==
    /\ HdrOff /\ WriterOff /\ ImportOff /\ CipherOff /\ ChainOff /\ ExportOff
    /\ ValueOff /\ RunOff /\ FilterOff /\ BatchOff /\ SerialOff
    /\ opts = [opfs |-> TRUE, onCustomItem |-> TRUE]
    /\ OctalInit

SpecSizeNext == OctalWrite \/ OctalRead

SpecSize == SpecSizeInit /\ [][SpecSizeNext]_vars

\* C35 (as stated): the size field createTarHeader writes decodes, as
\* octal ASCII, to exactly the size it was given, for every size.
C35_SizeFieldExact ==
    oPc = "read" => oDec = oDigits

---------------------------------------------------------------------------
(* The batch loop of exportData for one object store. The store is the    *)
(* list of its records [k, v] in ascending key order, which is the order  *)
(* a cursor returns them in; lastKey is [null, k].                        *)

BATCH_SIZE == 50
MaxRecords == 101

NoKey  == [null |-> TRUE, k |-> 0]
Key(k) == [null |-> FALSE, k |-> k]

\* the records a cursor over range returns: all of them for a null range,
\* those above lastKey for IDBKeyRange.lowerBound(lastKey, true)
InRange(store, last) ==
    IF last.null THEN store
    ELSE LET above == {i \in DOMAIN store : store[i].k > last.k}
         IN  IF above = {} THEN <<>>
             ELSE SubSeq(store, CHOOSE i \in above : \A j \in above : i <= j,
                         Len(store))

\* the items the promise of lines 476-498 resolves with
ReadBatch(store, last) ==
    LET found == InRange(store, last)
    IN  SubSeq(found, 1, Min(BATCH_SIZE, Len(found)))

\* lines 507-512
RECURSIVE EncBatch(_)
EncBatch(batch) ==
    IF batch = <<>> THEN <<>>
    ELSE LET val == PrepForCBOR(Head(batch).v)
         IN  (IF val.t # "null" THEN <<[k |-> Head(batch).k, v |-> val]>>
              ELSE <<>>)
             \o EncBatch(Tail(batch))

\* the values a record is drawn from besides the number 1
OddValues ==
    {Null, Undefined, Blob(MIME, <<7, 8>>, FALSE), Blob(MIME, <<9>>, TRUE),
     Obj(<<[k |-> "a", v |-> Blob(MIME, <<9>>, TRUE)]>>)}

\* stores of n records with keys 0 .. n - 1, all of value 1 but at most one
Stores ==
    UNION {{[i \in 1..n |-> [k |-> i - 1, v |-> Num(1)]]} \cup
           {[i \in 1..n |-> [k |-> i - 1, v |-> IF i = at THEN v ELSE Num(1)]] :
                at \in {1, n} \cap (1..n), v \in OddValues}
              : n \in 0..MaxRecords}

BatchInit ==
    /\ bStore \in Stores
    /\ bLastKey = NoKey /\ bHasMore = TRUE /\ bChunkId = 0
    /\ bBatch = <<>> /\ bOut = <<>>
    /\ bPc = "loop"

\* while (hasMore): the yield and the read of a batch
BatchRead ==
    /\ bPc = "loop" /\ bHasMore
    /\ bBatch' = ReadBatch(bStore, bLastKey)
    /\ bPc' = "read"
    /\ UNCHANGED <<bStore, bLastKey, bHasMore, bChunkId, bOut>>
    /\ UNCHANGED <<hdrVars, wVars, iVars, eVars, cVars, dVars, gVars, xVars,
                   vVars, rVars, fVars, oVars, sVars>>

\* withTimeout rejects with "ReadBatch"; the catch of line 523 takes over
BatchTimeout ==
    /\ bPc = "loop" /\ bHasMore
    /\ bPc' = "failed"
    /\ UNCHANGED <<bStore, bLastKey, bHasMore, bChunkId, bBatch, bOut>>
    /\ UNCHANGED <<hdrVars, wVars, iVars, eVars, cVars, dVars, gVars, xVars,
                   vVars, rVars, fVars, oVars, sVars>>

\* if (batch.length > 0): lines 505-517
BatchWrite ==
    /\ bPc = "read" /\ Len(bBatch) > 0
    /\ bLastKey' = Key(bBatch[Len(bBatch)].k)
    /\ bOut' = Append(bOut, [id |-> bChunkId, items |-> EncBatch(bBatch)])
    /\ bChunkId' = bChunkId + 1
    /\ bPc' = "loop"
    /\ UNCHANGED <<bStore, bHasMore, bBatch>>
    /\ UNCHANGED <<hdrVars, wVars, iVars, eVars, cVars, dVars, gVars, xVars,
                   vVars, rVars, fVars, oVars, sVars>>

\* else hasMore = false
BatchEmpty ==
    /\ bPc = "read" /\ Len(bBatch) = 0
    /\ bHasMore' = FALSE
    /\ bPc' = "loop"
    /\ UNCHANGED <<bStore, bLastKey, bChunkId, bBatch, bOut>>
    /\ UNCHANGED <<hdrVars, wVars, iVars, eVars, cVars, dVars, gVars, xVars,
                   vVars, rVars, fVars, oVars, sVars>>

\* the loop condition fails
BatchExit ==
    /\ bPc = "loop" /\ ~bHasMore
    /\ bPc' = "done"
    /\ UNCHANGED <<bStore, bLastKey, bHasMore, bChunkId, bBatch, bOut>>
    /\ UNCHANGED <<hdrVars, wVars, iVars, eVars, cVars, dVars, gVars, xVars,
                   vVars, rVars, fVars, oVars, sVars>>

SpecBatchInit ==
    /\ HdrOff /\ WriterOff /\ ImportOff /\ CipherOff /\ ChainOff /\ ExportOff
    /\ ValueOff /\ RunOff /\ FilterOff /\ OctalOff /\ SerialOff
    /\ opts = [opfs |-> TRUE, onCustomItem |-> TRUE]
    /\ BatchInit

SpecBatchNext ==
    BatchRead \/ BatchTimeout \/ BatchWrite \/ BatchEmpty \/ BatchExit

SpecBatch == SpecBatchInit /\ [][SpecBatchNext]_vars

\* the keys of the entries out[1..n], in the order of the entries
RECURSIVE KeysWritten(_, _)
KeysWritten(out, n) ==
    IF n = 0 THEN <<>>
    ELSE KeysWritten(out, n - 1)
         \o [i \in 1..Len(out[n].items) |-> out[n].items[i].k]

\* C37 (as stated), for a loop that has ended without a timeout: it wrote
\* ceil(n/50) entries numbered 0, 1, 2, ...; read in that order they hold
\* every key of the store exactly once in ascending order, and none holds
\* more than 50 records.
C37_BatchesCoverStore ==
    bPc = "done" =>
        /\ Len(bOut) = (Len(bStore) + BATCH_SIZE - 1) \div BATCH_SIZE
        /\ \A j \in DOMAIN bOut :
              /\ bOut[j].id = j - 1
              /\ Len(bOut[j].items) <= BATCH_SIZE
        /\ KeysWritten(bOut, Len(bOut)) = [i \in 1..Len(bStore) |-> bStore[i].k]

\* C39 (as stated): when a batch has been written, every record of it
\* whose value holds no timed-out blob is in the entry with its key.
C39_RecordsKept ==
    (bPc = "loop" /\ bOut # <<>> /\ bBatch # <<>> /\ bHasMore) =>
        \A i \in DOMAIN bBatch :
            ~HasLate(bBatch[i].v) =>
                \E j \in DOMAIN bOut[Len(bOut)].items :
                    /\ bOut[Len(bOut)].items[j].k = bBatch[i].k
                    /\ bOut[Len(bOut)].items[j].v = PrepForCBOR(bBatch[i].v)

---------------------------------------------------------------------------
(* unsafeObjectToReadableJS. A value is 0, which stands for any primitive *)
(* and for a known global, or the index in the graph of an object. An     *)
(* object is [tag, props, proto, buffer, byteOffset, length]: tag is its   *)
(* type tag without "[object ]"; props are the values of its own keys,    *)
(* without "length" for an array; proto is 0 when its prototype is one    *)
(* that populate takes as standard, else the prototype object; buffer is  *)
(* the ArrayBuffer of a view. An expression is [form, name, args]: the    *)
(* template it was made from, the type name put into it and the numbers   *)
(* put into it, identifiers being the number that follows the prefix.     *)
(* The text of an inline literal is not kept. The graphs hold no symbol,  *)
(* Map, Set, Error, File, sparse array or null-prototype object.          *)

MAX_INLINE_DEPTH == 200

Expr(form, name, args) == [form |-> form, name |-> name, args |-> args]

IsView(node) == node.tag = "Uint8Array"

\* typeof val === "object"
IsObjectType(node) == node.tag # "Function"

\* the values the counting loop pushes for curr (lines 142-168); a view is
\* an object, so the branch that pushes curr.buffer is never reached
Pushed(node) ==
    IF node.tag = "Array" THEN node.props
    ELSE IF IsObjectType(node) THEN node.props
    ELSE <<>>

\* counts.get(val) || 0
CountOf(cnt, v) == IF v \in DOMAIN cnt THEN cnt[v] ELSE 0

\* the state gen and createVariable work on
Emitter(ids, decls, queue, upd, ctr) ==
    [idMap |-> ids, declarations |-> decls, populationQueue |-> queue,
     updates |-> upd, refCounter |-> ctr]

\* getID(val)
GetID(st, v) ==
    IF v \in DOMAIN st.idMap THEN [st |-> st, id |-> st.idMap[v]]
    ELSE [st |-> [st EXCEPT !.idMap = @ @@ (v :> st.refCounter),
                            !.refCounter = @ + 1],
          id |-> st.refCounter]

\* the first chain of createVariable (lines 272-313), given the
\* identifier gen returned for the buffer of a view
FirstExpr(node, bufferID) ==
    LET hasExtraProps == node.tag \notin {"Array", "Error", "Set", "Map"}
                             /\ Len(node.props) > 0
    IN  CASE node.tag \in {"Number", "String", "Boolean"} ->
                 [expr |-> Expr("new ${tag}(${val.valueOf()})", node.tag, <<>>),
                  needsPopulation |-> hasExtraProps]
          [] node.tag = "Date" ->
                 [expr |-> Expr("new Date(${val.getTime()})", "", <<>>),
                  needsPopulation |-> hasExtraProps]
          [] node.tag = "RegExp" ->
                 [expr |-> Expr("new RegExp(${source}, ${flags})", "", <<>>),
                  needsPopulation |-> TRUE]
          [] node.tag = "Function" ->
                 [expr |-> Expr("function", "", <<>>),
                  needsPopulation |-> Len(node.props) > 1]
          [] node.tag = "Blob" ->
                 [expr |-> Expr("await (await fetch(${data})).blob()", "", <<>>),
                  needsPopulation |-> FALSE]
          [] IsView(node) ->
                 [expr |-> Expr("new ${typeName}(${bufferID}, ${byteOffset}, ${length})",
                                node.tag,
                                <<bufferID, node.byteOffset, node.length>>),
                  needsPopulation |-> FALSE]
          [] OTHER ->
                 [expr |-> Expr("", "", <<>>), needsPopulation |-> FALSE]

\* the second chain (lines 314-330), which starts with an if of its own
SecondExpr(node, first) ==
    CASE node.tag = "ArrayBuffer" ->
             [expr |-> Expr("Uint8Array.from(atob(${b64}), ...).buffer", "", <<>>),
              needsPopulation |-> first.needsPopulation]
      [] node.tag = "Array" ->
             [expr |-> Expr("new Array(${length})", "", <<Len(node.props)>>),
              needsPopulation |-> TRUE]
      [] node.tag = "Set" ->
             [expr |-> Expr("new Set()", "", <<>>), needsPopulation |-> TRUE]
      [] node.tag = "Map" ->
             [expr |-> Expr("new Map()", "", <<>>), needsPopulation |-> TRUE]
      [] OTHER ->
             [expr |-> Expr("{}", "", <<>>), needsPopulation |-> TRUE]

RECURSIVE Gen(_, _, _, _, _)
RECURSIVE GenEach(_, _, _, _, _)
RECURSIVE CreateVariable(_, _, _, _)

\* createVariable(val, tag) (lines 262-342)
CreateVariable(g, cnt, st, v) ==
    LET node   == g[v]
        got    == GetID(st, v)
        buf    == IF IsView(node) THEN Gen(g, cnt, got.st, node.buffer, 0)
                  ELSE [st |-> got.st, out |-> Expr("", "", <<>>)]
        first  == FirstExpr(node, IF IsView(node) THEN buf.out.args[1] ELSE 0)
        second == SecondExpr(node, first)
        st2    == buf.st
    IN  [st |-> [st2 EXCEPT
                    !.declarations =
                        Append(@, [id |-> got.id, expr |-> second.expr]),
                    !.populationQueue =
                        IF second.needsPopulation
                        THEN Append(@, [val |-> v, id |-> got.id])
                        ELSE @],
         out |-> Expr("id", "", <<got.id>>)]

\* gen of the values vs one after the other
GenEach(g, cnt, st, vs, depth) ==
    IF vs = <<>> THEN st
    ELSE GenEach(g, cnt, Gen(g, cnt, st, Head(vs), depth).st, Tail(vs), depth)

\* gen(val, depth) (lines 180-260)
Gen(g, cnt, st, v, depth) ==
    IF v = 0 THEN [st |-> st, out |-> Expr("primitive", "", <<>>)]
    ELSE IF g[v].tag = "ArrayBuffer" THEN CreateVariable(g, cnt, st, v)
    ELSE IF v \in DOMAIN st.idMap
    THEN [st |-> st, out |-> Expr("id", "", <<st.idMap[v]>>)]
    ELSE LET isShared  == CountOf(cnt, v) > 1
             isTooDeep == depth >= MAX_INLINE_DEPTH
             forceVariable ==
                 isShared \/ isTooDeep \/ g[v].tag \notin {"Array", "Object"}
         IN  IF forceVariable THEN CreateVariable(g, cnt, st, v)
             ELSE [st |-> GenEach(g, cnt, st, g[v].props, depth + 1),
                   out |-> Expr(IF g[v].tag = "Array" THEN "[...]" ELSE "{ ... }",
                                "", <<>>)]

\* populate(val, id, tag) (lines 344-391): one update per prototype and
\* per own key, each with the identifier it is made on
Populate(g, cnt, st, task) ==
    LET node   == g[task.val]
        withProto == node.proto # 0 /\ IsObjectType(node)
        st1    == IF withProto THEN Gen(g, cnt, st, node.proto, 0).st ELSE st
        st2    == [st1 EXCEPT !.updates =
                      IF withProto
                      THEN Append(@, Expr("Object.setPrototypeOf", "", <<task.id>>))
                      ELSE @]
        st3    == GenEach(g, cnt, st2, node.props, 0)
    IN  [st3 EXCEPT !.updates =
            @ \o [i \in 1..Len(node.props) |->
                     Expr("${objId}${keyExpr} = ...", "", <<task.id>>)]]

\* ---- the graphs

Kinds ==
    {"Date", "RegExp", "Number", "Function", "Blob", "ArrayBuffer",
     "Uint8Array", "Object", "Array"}

Shapes == {"alone", "once", "twice", "array", "cycle", "views"}

NodeOf(tag, props, proto, buffer) ==
    [tag |-> tag, props |-> props, proto |-> proto, buffer |-> buffer,
     byteOffset |-> IF buffer # 0 THEN 1 ELSE 0,
     length |-> IF buffer # 0 THEN 2 ELSE 0]

\* an object of a kind; object 3 is the prototype of the built-in kinds
\* and object 5 the buffer of the views
KindNode(kind) ==
    CASE kind = "Date"        -> NodeOf(kind, <<>>, 3, 0)
      [] kind = "RegExp"      -> NodeOf(kind, <<0>>, 3, 0)
      [] kind = "Number"      -> NodeOf(kind, <<>>, 3, 0)
      [] kind = "Function"    -> NodeOf(kind, <<0, 0>>, 0, 0)
      [] kind = "Blob"        -> NodeOf(kind, <<>>, 3, 0)
      [] kind = "ArrayBuffer" -> NodeOf(kind, <<>>, 3, 0)
      [] kind = "Uint8Array"  -> NodeOf(kind, <<0, 0>>, 3, 5)
      [] kind = "Object"      -> NodeOf(kind, <<0>>, 0, 0)
      [] kind = "Array"       -> NodeOf(kind, <<0>>, 0, 0)

\* obj, the object of the kind, a prototype with one native method, that
\* method, a buffer and a second view of it
GraphOf(shape, kind) ==
    << CASE shape = "alone" -> KindNode(kind)
         [] shape = "once"  -> NodeOf("Object", <<2>>, 0, 0)
         [] shape = "twice" -> NodeOf("Object", <<2, 2>>, 0, 0)
         [] shape = "array" -> NodeOf("Array", <<2, 2>>, 0, 0)
         [] shape = "cycle" -> NodeOf("Object", <<1, 2>>, 0, 0)
         [] shape = "views" -> NodeOf("Array", <<2, 6>>, 0, 0),
       KindNode(kind),
       NodeOf("Object", <<0, 4>>, 0, 0),
       NodeOf("Function", <<0, 0>>, 0, 0),
       NodeOf("ArrayBuffer", <<>>, 3, 0),
       NodeOf("Uint8Array", <<0, 0>>, 3, 5) >>

Graphs == {GraphOf(shape, kind) : shape \in Shapes, kind \in Kinds}

SerialInit ==
    /\ sGraph \in Graphs
    /\ sStack = <<1>>
    /\ counts = <<>> /\ idMap = <<>> /\ declarations = <<>>
    /\ populationQueue = <<>> /\ sDone = 0 /\ updates = <<>>
    /\ refCounter = 0
    /\ rootResult = Expr("", "", <<>>)
    /\ sPc = "count"

\* one turn of while (stack.length > 0) (lines 103-169)
SerialCount ==
    /\ sPc = "count" /\ sStack # <<>>
    /\ LET curr == sStack[Len(sStack)]
           rest == SubSeq(sStack, 1, Len(sStack) - 1)
       IN  IF curr = 0 THEN
               /\ sStack' = rest /\ counts' = counts
           ELSE IF curr \in DOMAIN counts THEN
               /\ sStack' = rest
               /\ counts' = [counts EXCEPT ![curr] = @ + 1]
           ELSE
               /\ sStack' = rest \o Pushed(sGraph[curr])
               /\ counts' = counts @@ (curr :> 1)
    /\ UNCHANGED <<sGraph, idMap, declarations, populationQueue, sDone,
                   updates, refCounter, rootResult, sPc>>
    /\ UNCHANGED <<hdrVars, wVars, iVars, eVars, cVars, dVars, gVars, xVars,
                   vVars, rVars, fVars, oVars, bVars>>

\* const rootResult = gen(obj, 0)
SerialGenRoot ==
    /\ sPc = "count" /\ sStack = <<>>
    /\ LET r == Gen(sGraph, counts,
                    Emitter(idMap, declarations, populationQueue, updates,
                            refCounter), 1, 0)
       IN  /\ rootResult' = r.out
           /\ idMap' = r.st.idMap
           /\ declarations' = r.st.declarations
           /\ populationQueue' = r.st.populationQueue
           /\ updates' = r.st.updates
           /\ refCounter' = r.st.refCounter
    /\ sPc' = "populate"
    /\ UNCHANGED <<sGraph, sStack, counts, sDone>>
    /\ UNCHANGED <<hdrVars, wVars, iVars, eVars, cVars, dVars, gVars, xVars,
                   vVars, rVars, fVars, oVars, bVars>>

\* one turn of the loop over populationQueue (lines 408-411)
SerialPopulate ==
    /\ sPc = "populate" /\ sDone < Len(populationQueue)
    /\ LET st == Populate(sGraph, counts,
                          Emitter(idMap, declarations, populationQueue,
                                  updates, refCounter),
                          populationQueue[sDone + 1])
       IN  /\ idMap' = st.idMap
           /\ declarations' = st.declarations
           /\ populationQueue' = st.populationQueue
           /\ updates' = st.updates
           /\ refCounter' = st.refCounter
    /\ sDone' = sDone + 1
    /\ UNCHANGED <<sGraph, sStack, counts, rootResult, sPc>>
    /\ UNCHANGED <<hdrVars, wVars, iVars, eVars, cVars, dVars, gVars, xVars,
                   vVars, rVars, fVars, oVars, bVars>>

\* the loop is over and the text is put together (lines 413-417)
SerialReturn ==
    /\ sPc = "populate" /\ sDone = Len(populationQueue)
    /\ sPc' = "returned"
    /\ UNCHANGED <<sGraph, sStack, counts, idMap, declarations,
                   populationQueue, sDone, updates, refCounter, rootResult>>
    /\ UNCHANGED <<hdrVars, wVars, iVars, eVars, cVars, dVars, gVars, xVars,
                   vVars, rVars, fVars, oVars, bVars>>

SpecSerialInit ==
    /\ HdrOff /\ WriterOff /\ ImportOff /\ CipherOff /\ ChainOff /\ ExportOff
    /\ ValueOff /\ RunOff /\ FilterOff /\ OctalOff /\ BatchOff
    /\ opts = [opfs |-> TRUE, onCustomItem |-> TRUE]
    /\ SerialInit

SpecSerialNext ==
    SerialCount \/ SerialGenRoot \/ SerialPopulate \/ SerialReturn

SpecSerial == SpecSerialInit /\ [][SpecSerialNext]_vars

\* C36 (as stated): the declaration of a typed array constructs its type
\* over the identifier of its buffer with its offset and length, and the
\* declaration of a Date, RegExp, boxed primitive, function or blob is the
\* expression chosen for that kind in the first chain, never "{}".
C36_KindsKeepTheirExpression ==
    \A d \in DOMAIN declarations :
        \A v \in DOMAIN idMap :
            (/\ idMap[v] = declarations[d].id
             /\ sGraph[v].tag \in {"Uint8Array", "Date", "RegExp", "Number",
                                   "Function", "Blob"}) =>
                /\ declarations[d].expr.form # "{}"
                /\ sGraph[v].buffer \in DOMAIN idMap =>
                       declarations[d].expr =
                           FirstExpr(sGraph[v], idMap[sGraph[v].buffer]).expr
                /\ sGraph[v].buffer \notin DOMAIN idMap =>
                       declarations[d].expr = FirstExpr(sGraph[v], 0).expr

\* C40 (as stated), for a call that has returned: no two entries of the
\* declarations list bind the same identifier.
C40_DeclaredOnce ==
    sPc = "returned" =>
        \A i, j \in DOMAIN declarations :
            declarations[i].id = declarations[j].id => i = j

===========================================================================
